---- MODULE Spec2Model ----
(***************************************************************************)
(* ExoSpace: the procedural map generators of the terminal client          *)
(* (Map::generate_local) and of the server (MapGenerator::generate), start *)
(* resolution, the per-direction key state machine (InputState), player    *)
(* movement with wall sliding (Player::try_move) and the client main loop. *)
(***************************************************************************)
EXTENDS Integers, Sequences, FiniteSets, TLC

VARIABLES
    ctx,            \* generation context under test: seed, width, height, build profile
    gens,           \* the generator runs of the determinism harness, by run id
    map,            \* client session: Map {tiles, width, height, start_position}
    player,         \* client session: Player {x, y, direction}
    input_state,    \* InputState {up, down, left, right, has_release_support}
    chat,           \* ChatWindow {active, input, cursor}
    renderer,       \* Renderer {frame, effects_enabled}
    now,            \* the monotonic clock read by Instant::now(), in milliseconds
    last_move_time, \* main: last_move_time
    pc,             \* position of the control loop
    op,             \* the operation performed by the last step, with its result
    seen            \* history: the key events update_key has been given

vars == <<ctx, gens, map, player, input_state, chat, renderer, now, last_move_time, pc, op,
          seen>>

----------------------------------------------------------------------------
(* Tiles *)

Wall == "Wall"
Floor == "Floor"
Asteroid == "Asteroid"
Nebula == "Nebula"
Tile == {Wall, Floor, Asteroid, Nebula}

\* Tile::is_passable
TileIsPassable(t) == t \in {Floor, Nebula}

----------------------------------------------------------------------------
(* 64-bit unsigned arithmetic.  A u64 is kept as four 16-bit limbs, least   *)
(* significant first, so that wrapping_mul / wrapping_add are exact.       *)

Limb == 65536

U64(n) == <<n % Limb, n \div Limb, 0, 0>>

\* 1103515245 = 16838 * 2^16 + 20077
MulLo == 20077
MulHi == 16838
Increment == 12345

Min(a, b) == IF a < b THEN a ELSE b
Max(a, b) == IF a > b THEN a ELSE b

\* a color 0xRRGGBB: (r << 16) | (g << 8) | b, for r, g and b below 256
Rgb(r, g, b) == r * 65536 + g * 256 + b

\* rng_state.wrapping_mul(1103515245).wrapping_add(12345)
LcgStep(s) ==
    LET p00 == s[1] * MulLo
        p01 == s[1] * MulHi
        p10 == s[2] * MulLo
        p11 == s[2] * MulHi
        p20 == s[3] * MulLo
        p21 == s[3] * MulHi
        p30 == s[4] * MulLo
        t0 == (p00 % Limb) + Increment
        c0 == (t0 \div Limb) + (p00 \div Limb)
        t1 == (p01 % Limb) + (p10 % Limb) + c0
        c1 == (t1 \div Limb) + (p01 \div Limb) + (p10 \div Limb)
        t2 == (p11 % Limb) + (p20 % Limb) + c1
        c2 == (t2 \div Limb) + (p11 \div Limb) + (p20 \div Limb)
        t3 == (p21 % Limb) + (p30 % Limb) + c2
    IN  <<t0 % Limb, t1 % Limb, t2 % Limb, t3 % Limb>>

\* (rng_state >> 16) & 0x7fff
RandOut(s) == s[2] % 32768

----------------------------------------------------------------------------
(* Tile grids: tiles[y][x], rows and columns indexed from 0.               *)

\* vec![vec![Tile::Wall; width]; height]
AllWall(width, height) == [y \in 0..(height - 1) |-> [x \in 0..(width - 1) |-> Wall]]

\* the fill with the column range closed at its upper end (x0..=x1)
FillRectInclusive(t, x0, x1, y0, y1, v) ==
    [y \in DOMAIN t |->
        IF y >= y0 /\ y < y1
        THEN [x \in DOMAIN t[y] |-> IF x >= x0 /\ x <= x1 THEN v ELSE t[y][x]]
        ELSE t[y]]

\* tiles[y][x] = v for y in y0..y1, x in x0..x1 (half-open ranges, as in Rust)
FillRect(t, x0, x1, y0, y1, v) ==
    [y \in DOMAIN t |->
        IF y >= y0 /\ y < y1
        THEN [x \in DOMAIN t[y] |-> IF x >= x0 /\ x < x1 THEN v ELSE t[y][x]]
        ELSE t[y]]

\* the conversion without its test of the cell: tiles[y][x] = to over the ranges
ConvertRectAny(t, x0, x1, y0, y1, from, to) ==
    [y \in DOMAIN t |->
        IF y >= y0 /\ y < y1
        THEN [x \in DOMAIN t[y] |-> IF x >= x0 /\ x < x1 THEN to ELSE t[y][x]]
        ELSE t[y]]

\* if tiles[y][x] == from { tiles[y][x] = to } over the same ranges
ConvertRect(t, x0, x1, y0, y1, from, to) ==
    [y \in DOMAIN t |->
        IF y >= y0 /\ y < y1
        THEN [x \in DOMAIN t[y] |->
                IF x >= x0 /\ x < x1 /\ t[y][x] = from THEN to ELSE t[y][x]]
        ELSE t[y]]

\* usize::saturating_sub
SatSub(a, b) == IF a > b THEN a - b ELSE 0

(* Outcome of a generation step.  "ok": the step ran to its end.           *)
(* "panic": the process aborted (arithmetic overflow with overflow checks   *)
(* on, or a remainder by zero in any build).  "hang": with overflow checks  *)
(* off a usize subtraction wrapped to 2^64 - 1 and became a loop bound, so  *)
(* the loop does not come to an end.                                        *)
Outcome == {"ok", "panic", "hang"}

Underflow(checks) == IF checks THEN "panic" ELSE "hang"

Step(t, s, st) == [tiles |-> t, rng_state |-> s, status |-> st]

----------------------------------------------------------------------------
(* Map::generate_local, pass by pass.  Every pass takes and returns the    *)
(* record [tiles, rng_state, status].                                      *)

\* let mut rng_state: u64 = 12345
LocalSeed == 12345

RECURSIVE ClientCorridorRows(_, _, _, _, _)
ClientCorridorRows(t, s, y, width, height) ==
    IF y < height - 2
    THEN LET s1 == LcgStep(s)
             corridor_height == (RandOut(s1) % 15) + 3
             s2 == LcgStep(s1)
             wall_height == (RandOut(s2) % 4) + 1
         IN  ClientCorridorRows(
                 FillRect(t, 1, width - 1, y, Min(y + corridor_height, height - 1), Floor),
                 s2, y + corridor_height + wall_height, width, height)
    ELSE Step(t, s, "ok")

\* "Create main corridors with varying widths": while y < height - 2
ClientHorizontalPass(g, width, height, checks) ==
    IF height < 2
    THEN Step(g.tiles, g.rng_state, Underflow(checks))
    ELSE ClientCorridorRows(g.tiles, g.rng_state, 2, width, height)

RECURSIVE ClientCorridorCols(_, _, _, _, _)
ClientCorridorCols(t, s, x, width, height) ==
    IF x < width - 2
    THEN LET s1 == LcgStep(s)
             corridor_width == (RandOut(s1) % 18) + 2
             s2 == LcgStep(s1)
             wall_width == (RandOut(s2) % 6) + 2
         IN  ClientCorridorCols(
                 FillRect(t, x, Min(x + corridor_width, width - 1), 1, height - 1, Floor),
                 s2, x + corridor_width + wall_width, width, height)
    ELSE Step(t, s, "ok")

\* "Create vertical corridors": while x < width - 2
ClientVerticalPass(g, width, height, checks) ==
    IF width < 2
    THEN Step(g.tiles, g.rng_state, Underflow(checks))
    ELSE ClientCorridorCols(g.tiles, g.rng_state, 2, width, height)

RECURSIVE ClientRooms(_, _, _, _, _)
ClientRooms(t, s, n, width, height) ==
    IF n = 0 THEN Step(t, s, "ok")
    ELSE LET s1 == LcgStep(s)
             room_w == (RandOut(s1) % 20) + 5
             s2 == LcgStep(s1)
             room_h == (RandOut(s2) % 15) + 4
             s3 == LcgStep(s2)
             mx == SatSub(width, room_w + 2)
             s4 == LcgStep(s3)
             my == SatSub(height, room_h + 2)
         IN  IF mx = 0 THEN Step(t, s3, "panic")
             ELSE IF my = 0 THEN Step(t, s4, "panic")
             ELSE LET room_x == Max(RandOut(s3) % mx, 1)
                      room_y == Max(RandOut(s4) % my, 1)
                  IN  ClientRooms(
                          FillRect(t, room_x, Min(room_x + room_w, width - 1),
                                   room_y, Min(room_y + room_h, height - 1), Floor),
                          s4, n - 1, width, height)

\* "Add some random rooms"
ClientRoomPass(g, width, height) ==
    ClientRooms(g.tiles, g.rng_state, (width * height) \div 2000, width, height)

RECURSIVE ClientNebulae(_, _, _, _, _)
ClientNebulae(t, s, n, width, height) ==
    IF n = 0 THEN Step(t, s, "ok")
    ELSE LET s1 == LcgStep(s)
             neb_w == (RandOut(s1) % 30) + 10
             s2 == LcgStep(s1)
             neb_h == (RandOut(s2) % 20) + 8
             s3 == LcgStep(s2)
             mx == SatSub(width, neb_w + 2)
             s4 == LcgStep(s3)
             my == SatSub(height, neb_h + 2)
         IN  IF mx = 0 THEN Step(t, s3, "panic")
             ELSE IF my = 0 THEN Step(t, s4, "panic")
             ELSE LET neb_x == Max(RandOut(s3) % mx, 1)
                      neb_y == Max(RandOut(s4) % my, 1)
                  IN  ClientNebulae(
                          ConvertRect(t, neb_x, Min(neb_x + neb_w, width - 1),
                                      neb_y, Min(neb_y + neb_h, height - 1), Floor, Nebula),
                          s4, n - 1, width, height)

\* "Add nebula zones (passable colored areas)"
ClientNebulaPass(g, width, height) ==
    ClientNebulae(g.tiles, g.rng_state, (width * height) \div 5000, width, height)

\* the test of can_place on the candidate's own box, not grown
CanPlaceExact(t, pillar_x, pillar_y, pillar_w, pillar_h, width, height) ==
    \A py \in pillar_y..(Min(pillar_y + pillar_h, height) - 1) :
        \A px \in pillar_x..(Min(pillar_x + pillar_w, width) - 1) :
            t[py][px] # Wall

\* can_place: no Wall in the candidate's box grown by one cell, clipped to the grid
CanPlace(t, pillar_x, pillar_y, pillar_w, pillar_h, width, height) ==
    \A py \in SatSub(pillar_y, 1)..(Min(pillar_y + pillar_h + 1, height) - 1) :
        \A px \in SatSub(pillar_x, 1)..(Min(pillar_x + pillar_w + 1, width) - 1) :
            t[py][px] # Wall

\* the four draws of one candidate: pillar_w, pillar_h, pillar_x, pillar_y; a
\* remainder by zero (saturating_sub gave 0) panics at the draw it belongs to
DrawPillar(s, width, height) ==
    LET s1 == LcgStep(s)
        pillar_w == (RandOut(s1) % 8) + 1
        s2 == LcgStep(s1)
        pillar_h == (RandOut(s2) % 8) + 1
        s3 == LcgStep(s2)
        mx == SatSub(width, pillar_w + 4)
        s4 == LcgStep(s3)
        my == SatSub(height, pillar_h + 4)
    IN  [pillar_w |-> pillar_w, pillar_h |-> pillar_h,
         pillar_x |-> IF mx = 0 THEN 0 ELSE (RandOut(s3) % mx) + 2,
         pillar_y |-> IF my = 0 THEN 0 ELSE (RandOut(s4) % my) + 2,
         rng_state |-> IF mx = 0 THEN s3 ELSE s4,
         status |-> IF mx = 0 \/ my = 0 THEN "panic" ELSE "ok"]

\* if can_place { tiles[py][px] = Tile::Wall over the candidate's box }
PlacePillar(t, d, width, height) ==
    IF CanPlace(t, d.pillar_x, d.pillar_y, d.pillar_w, d.pillar_h, width, height)
    THEN FillRect(t, d.pillar_x, Min(d.pillar_x + d.pillar_w, width - 1),
                  d.pillar_y, Min(d.pillar_y + d.pillar_h, height - 1), Wall)
    ELSE t

RECURSIVE ClientPillars(_, _, _, _, _)
ClientPillars(t, s, n, width, height) ==
    IF n = 0 THEN Step(t, s, "ok")
    ELSE LET d == DrawPillar(s, width, height)
         IN  IF d.status # "ok" THEN Step(t, d.rng_state, d.status)
             ELSE ClientPillars(PlacePillar(t, d, width, height), d.rng_state, n - 1,
                                width, height)

\* "Add internal walls/pillars"
ClientPillarPass(g, width, height) ==
    ClientPillars(g.tiles, g.rng_state, (width * height) \div 500, width, height)

\* for fx in fx..x1: if rand() % 3 == 0 && tiles[fy][fx] == Tile::Floor { ... = Asteroid }
RECURSIVE ClientFieldRow(_, _, _, _, _)
ClientFieldRow(t, s, fx, x1, fy) ==
    IF fx >= x1 THEN Step(t, s, "ok")
    ELSE LET s1 == LcgStep(s)
         IN  ClientFieldRow(
                 IF RandOut(s1) % 3 = 0 /\ t[fy][fx] = Floor
                 THEN [t EXCEPT ![fy][fx] = Asteroid] ELSE t,
                 s1, fx + 1, x1, fy)

\* for fy in fy..y1 { for fx in field_x..x1 { ... } }
RECURSIVE ClientFieldRows(_, _, _, _, _, _)
ClientFieldRows(t, s, fy, y1, field_x, x1) ==
    IF fy >= y1 THEN Step(t, s, "ok")
    ELSE LET row == ClientFieldRow(t, s, field_x, x1, fy)
         IN  IF row.status = "ok"
             THEN ClientFieldRows(row.tiles, row.rng_state, fy + 1, y1, field_x, x1)
             ELSE row

RECURSIVE ClientAsteroids(_, _, _, _, _)
ClientAsteroids(t, s, n, width, height) ==
    IF n = 0 THEN Step(t, s, "ok")
    ELSE LET s1 == LcgStep(s)
             field_w == (RandOut(s1) % 15) + 5
             s2 == LcgStep(s1)
             field_h == (RandOut(s2) % 10) + 4
             s3 == LcgStep(s2)
             mx == SatSub(width, field_w + 2)
             s4 == LcgStep(s3)
             my == SatSub(height, field_h + 2)
         IN  IF mx = 0 THEN Step(t, s3, "panic")
             ELSE IF my = 0 THEN Step(t, s4, "panic")
             ELSE LET field_x == Max(RandOut(s3) % mx, 1)
                      field_y == Max(RandOut(s4) % my, 1)
                      f == ClientFieldRows(t, s4, field_y, Min(field_y + field_h, height - 1),
                                           field_x, Min(field_x + field_w, width - 1))
                  IN  IF f.status = "ok"
                      THEN ClientAsteroids(f.tiles, f.rng_state, n - 1, width, height)
                      ELSE f

\* "Add asteroid fields (impassable but different visual)"
ClientAsteroidPass(g, width, height) ==
    ClientAsteroids(g.tiles, g.rng_state, (width * height) \div 3000, width, height)

\* "Ensure borders are walls"
ClientBorderSeal(g, width, height) ==
    Step([y \in DOMAIN g.tiles |->
            [x \in DOMAIN g.tiles[y] |->
                IF x = 0 \/ x = width - 1 \/ y = 0 \/ y = height - 1
                THEN Wall ELSE g.tiles[y][x]]],
         g.rng_state, "ok")

----------------------------------------------------------------------------
(* Map accessors and start resolution of the client.                       *)

\* Option::None, for Option<Tile>
NoTile == "None"
\* Option<(i32, i32)>: <<>> is None, <<x, y>> is Some((x, y))
NoPosition == <<>>

\* an accessor that answers for the nearest cell of the grid
MapGetClamped(m, x, y) ==
    m.tiles[Max(0, Min(y, m.height - 1))][Max(0, Min(x, m.width - 1))]

\* Map::get
MapGet(m, x, y) ==
    IF x < 0 \/ y < 0 THEN NoTile
    ELSE IF y \in DOMAIN m.tiles /\ x \in DOMAIN m.tiles[y] THEN m.tiles[y][x]
    ELSE NoTile

\* Map::is_passable
MapIsPassable(m, x, y) ==
    LET t == MapGet(m, x, y) IN IF t = NoTile THEN FALSE ELSE TileIsPassable(t)

\* the first (x, y) in the order "for dy in -r..=r { for dx in -r..=r" that cells holds
FirstRowMajor(cells) ==
    CHOOSE c \in cells : \A d \in cells : c[2] < d[2] \/ (c[2] = d[2] /\ c[1] <= d[1])

\* the whole grid at every radius: a scan that does not widen from the centre
SquareWhole(center_x, center_y, r, width, height) ==
    {<<x, y>> : x \in 0..(width - 1), y \in 0..(height - 1)}

(* The cells (center_x + dx, center_y + dy), dx, dy in -r..=r, that lie in *)
(* [0, width) x [0, height).  The loops also visit the cells of the square  *)
(* outside the grid, where the bounds test of the accessor fails, so none   *)
(* of those is ever returned.                                               *)
Square(center_x, center_y, r, width, height) ==
    {<<x, y>> : x \in Max(center_x - r, 0)..Min(center_x + r, width - 1),
                y \in Max(center_y - r, 0)..Min(center_y + r, height - 1)}

RECURSIVE ClientRingSearch(_, _, _, _, _)
ClientRingSearch(m, center_x, center_y, radius, limit) ==
    IF radius >= limit THEN <<1, 1>>
    ELSE LET hit == {c \in Square(center_x, center_y, radius, m.width, m.height) :
                        MapIsPassable(m, c[1], c[2])}
         IN  IF hit # {} THEN FirstRowMajor(hit)
             ELSE ClientRingSearch(m, center_x, center_y, radius + 1, limit)

\* Map::find_start_position
MapFindStartPosition(m) ==
    IF m.start_position # NoPosition THEN m.start_position
    ELSE ClientRingSearch(m, m.width \div 2, m.height \div 2, 0, Max(m.width, m.height))

----------------------------------------------------------------------------
(* MapGenerator::generate of the server, pass by pass.                     *)

\* params.seed.unwrap_or(12345)
DefaultSeed == 12345

\* a generator that carries on from the state the first generator ended with
MapGeneratorNewShared(seed) ==
    IF gens["generator1"].pc = "done" THEN gens["generator1"].rng_state ELSE seed

\* MapGenerator::new
MapGeneratorNew(seed) == seed

RECURSIVE ServerCorridorRows(_, _, _, _, _)
ServerCorridorRows(t, s, y, width, height) ==
    IF y < height - 2
    THEN LET s1 == LcgStep(s)
             corridor_height == (RandOut(s1) % 15) + 3
             s2 == LcgStep(s1)
             wall_height == (RandOut(s2) % 4) + 1
         IN  ServerCorridorRows(
                 FillRect(t, 1, width - 1, y, Min(y + corridor_height, height - 1), Floor),
                 s2, y + corridor_height + wall_height, width, height)
    ELSE Step(t, s, "ok")

\* "Create main corridors with varying widths": while y < height - 2
ServerHorizontalPass(g, width, height, checks) ==
    IF height < 2
    THEN Step(g.tiles, g.rng_state, Underflow(checks))
    ELSE ServerCorridorRows(g.tiles, g.rng_state, 2, width, height)

RECURSIVE ServerPassages(_, _, _, _, _, _)
ServerPassages(t, s, i, num_passages, width, height) ==
    IF i >= num_passages THEN Step(t, s, "ok")
    ELSE LET s1 == LcgStep(s)
             x == (i * 30) + 15 + (RandOut(s1) % 10)
             s2 == LcgStep(s1)
             passage_width == (RandOut(s2) % 8) + 2
         IN  IF x < width - 1
             THEN ServerPassages(
                      FillRect(t, x, Min(x + passage_width, width - 1), 1, height - 1, Floor),
                      s2, i + 1, num_passages, width, height)
             ELSE ServerPassages(t, s1, i + 1, num_passages, width, height)

\* "Add vertical passages"
ServerPassagePass(g, width, height) ==
    ServerPassages(g.tiles, g.rng_state, 0, width \div 30, width, height)

(* rand() as usize % (a - b) for usize a, b.  With a < b the subtraction   *)
(* aborts under overflow checks; without them it wraps to 2^64 + a - b,     *)
(* which is more than any 15-bit draw, so the remainder is the draw itself. *)
(* The result is <<status, value>>.                                        *)
RemBySub(draw, a, b, checks) ==
    IF a < b THEN (IF checks THEN <<"panic", 0>> ELSE <<"ok", draw>>)
    ELSE IF a = b THEN <<"panic", 0>>
    ELSE <<"ok", draw % (a - b)>>

RECURSIVE ServerRooms(_, _, _, _, _, _)
ServerRooms(t, s, n, width, height, checks) ==
    IF n = 0 THEN Step(t, s, "ok")
    ELSE LET s1 == LcgStep(s)
             room_w == (RandOut(s1) % 20) + 5
             s2 == LcgStep(s1)
             room_h == (RandOut(s2) % 15) + 5
             s3 == LcgStep(s2)
             rx == RemBySub(RandOut(s3), width, room_w + 2, checks)
             s4 == LcgStep(s3)
             ry == RemBySub(RandOut(s4), height, room_h + 2, checks)
         IN  IF rx[1] # "ok" THEN Step(t, s3, rx[1])
             ELSE IF ry[1] # "ok" THEN Step(t, s4, ry[1])
             ELSE LET room_x == rx[2] + 1
                      room_y == ry[2] + 1
                  IN  ServerRooms(
                          FillRect(t, room_x, Min(room_x + room_w, width - 1),
                                   room_y, Min(room_y + room_h, height - 1), Floor),
                          s4, n - 1, width, height, checks)

\* "Add some rooms"
ServerRoomPass(g, width, height, checks) ==
    ServerRooms(g.tiles, g.rng_state, (width * height) \div 2000, width, height, checks)

\* dist < (size * size) as f32 * 0.7 (tenths = 7) or * 0.8 (tenths = 8); the f32
\* product and comparison agree with the integer comparison for every size drawn
InDisc(dx, dy, size, tenths) == 10 * (dx * dx + dy * dy) < tenths * size * size

\* for dx in dx..=field_size:
\* if tiles[ay][ax] == Tile::Floor && self.rand() % 3 != 0 { tiles[ay][ax] = Asteroid }
RECURSIVE ServerFieldRow(_, _, _, _, _, _, _, _, _)
ServerFieldRow(t, s, dx, dy, center_x, center_y, field_size, width, height) ==
    IF dx > field_size THEN Step(t, s, "ok")
    ELSE LET ax == center_x + dx
             ay == center_y + dy
         IN  IF InDisc(dx, dy, field_size, 7)
                /\ ax > 0 /\ ax < width - 1 /\ ay > 0 /\ ay < height - 1
                /\ t[ay][ax] = Floor
             THEN LET s1 == LcgStep(s)
                  IN  ServerFieldRow(
                          IF RandOut(s1) % 3 # 0 THEN [t EXCEPT ![ay][ax] = Asteroid] ELSE t,
                          s1, dx + 1, dy, center_x, center_y, field_size, width, height)
             ELSE ServerFieldRow(t, s, dx + 1, dy, center_x, center_y, field_size,
                                 width, height)

\* for dy in dy..=field_size { for dx in -field_size..=field_size { ... } }
RECURSIVE ServerFieldRows(_, _, _, _, _, _, _, _)
ServerFieldRows(t, s, dy, center_x, center_y, field_size, width, height) ==
    IF dy > field_size THEN Step(t, s, "ok")
    ELSE LET row == ServerFieldRow(t, s, -field_size, dy, center_x, center_y, field_size,
                                   width, height)
         IN  IF row.status = "ok"
             THEN ServerFieldRows(row.tiles, row.rng_state, dy + 1, center_x, center_y,
                                  field_size, width, height)
             ELSE row

RECURSIVE ServerAsteroids(_, _, _, _, _, _)
ServerAsteroids(t, s, n, width, height, checks) ==
    IF n = 0 THEN Step(t, s, "ok")
    ELSE LET s1 == LcgStep(s)
             cx == RemBySub(RandOut(s1), width, 20, checks)
             s2 == LcgStep(s1)
             cy == RemBySub(RandOut(s2), height, 10, checks)
             s3 == LcgStep(s2)
             field_size == (RandOut(s3) % 8) + 3
         IN  IF cx[1] # "ok" THEN Step(t, s1, cx[1])
             ELSE IF cy[1] # "ok" THEN Step(t, s2, cy[1])
             ELSE LET f == ServerFieldRows(t, s3, -field_size, cx[2] + 10, cy[2] + 5,
                                           field_size, width, height)
                  IN  IF f.status = "ok"
                      THEN ServerAsteroids(f.tiles, f.rng_state, n - 1, width, height, checks)
                      ELSE f

\* "Add asteroid fields (clusters of impassable asteroids)"
ServerAsteroidPass(g, width, height, checks) ==
    ServerAsteroids(g.tiles, g.rng_state, (width * height) \div 5000, width, height, checks)

RECURSIVE ServerNebulae(_, _, _, _, _, _)
ServerNebulae(t, s, n, width, height, checks) ==
    IF n = 0 THEN Step(t, s, "ok")
    ELSE LET s1 == LcgStep(s)
             cx == RemBySub(RandOut(s1), width, 30, checks)
             s2 == LcgStep(s1)
             cy == RemBySub(RandOut(s2), height, 15, checks)
             s3 == LcgStep(s2)
             nebula_size == (RandOut(s3) % 12) + 5
         IN  IF cx[1] # "ok" THEN Step(t, s1, cx[1])
             ELSE IF cy[1] # "ok" THEN Step(t, s2, cy[1])
             ELSE ServerNebulae(
                      [ny \in DOMAIN t |->
                          [nx \in DOMAIN t[ny] |->
                              IF InDisc(nx - (cx[2] + 15), ny - (cy[2] + 7), nebula_size, 8)
                                 /\ nx - (cx[2] + 15) \in (-nebula_size)..nebula_size
                                 /\ ny - (cy[2] + 7) \in (-nebula_size)..nebula_size
                                 /\ nx > 0 /\ nx < width - 1 /\ ny > 0 /\ ny < height - 1
                                 /\ t[ny][nx] = Floor
                              THEN Nebula ELSE t[ny][nx]]],
                      s3, n - 1, width, height, checks)

\* "Add nebula zones (passable but visually distinct)"
ServerNebulaPass(g, width, height, checks) ==
    ServerNebulae(g.tiles, g.rng_state, (width * height) \div 8000, width, height, checks)

RECURSIVE ServerRingSearch(_, _, _, _, _, _)
ServerRingSearch(t, width, height, center_x, center_y, radius) ==
    IF radius >= 50 THEN <<1, 1>>
    ELSE LET hit == {c \in Square(center_x, center_y, radius, width, height) :
                        /\ c[1] >= 0 /\ c[1] < width /\ c[2] >= 0 /\ c[2] < height
                        /\ TileIsPassable(t[c[2]][c[1]])}
         IN  IF hit # {} THEN FirstRowMajor(hit)
             ELSE ServerRingSearch(t, width, height, center_x, center_y, radius + 1)

\* the start taken to be the centre, with no search
ServerStartAtCenter(t, width, height) == <<width \div 2, height \div 2>>

\* MapGenerator::find_start_position
ServerFindStartPosition(t, width, height) ==
    ServerRingSearch(t, width, height, width \div 2, height \div 2, 0)

----------------------------------------------------------------------------
(* Whole generator runs, as the bootstrap of a client session uses them.   *)

(* Map::generate_local(width, height): the grid and how the run ended.  A  *)
(* pass works on the value the pass before it has left; a run that has      *)
(* failed stays as it is.                                                   *)
GenerateLocal(width, height, checks) ==
    LET P2(g) == IF g.status = "ok" THEN ClientVerticalPass(g, width, height, checks) ELSE g
        P3(g) == IF g.status = "ok" THEN ClientRoomPass(g, width, height) ELSE g
        P4(g) == IF g.status = "ok" THEN ClientNebulaPass(g, width, height) ELSE g
        P5(g) == IF g.status = "ok" THEN ClientPillarPass(g, width, height) ELSE g
        P6(g) == IF g.status = "ok" THEN ClientAsteroidPass(g, width, height) ELSE g
        P7(g) == IF g.status = "ok" THEN ClientBorderSeal(g, width, height) ELSE g
    IN  CHOOSE run \in
            {P7(g6) : g6 \in {P6(g5) : g5 \in {P5(g4) : g4 \in {P4(g3) : g3 \in
                {P3(g2) : g2 \in {P2(g1) : g1 \in
                    {ClientHorizontalPass(g0, width, height, checks) :
                        g0 \in {Step(AllWall(width, height), U64(LocalSeed), "ok")}}}}}}}} :
            TRUE

\* MapGenerator::new(seed).generate(width, height): MapData and how the run ended
Generate(seed, width, height, checks) ==
    LET P2(g) == IF g.status = "ok" THEN ServerPassagePass(g, width, height) ELSE g
        P3(g) == IF g.status = "ok" THEN ServerRoomPass(g, width, height, checks) ELSE g
        P4(g) == IF g.status = "ok" THEN ServerAsteroidPass(g, width, height, checks) ELSE g
        P5(g) == IF g.status = "ok" THEN ServerNebulaPass(g, width, height, checks) ELSE g
        MapData(g) ==
            [tiles |-> g.tiles, width |-> width, height |-> height, status |-> g.status,
             start |-> IF g.status = "ok"
                       THEN ServerFindStartPosition(g.tiles, width, height) ELSE NoPosition]
    IN  CHOOSE data \in
            {MapData(g5) : g5 \in {P5(g4) : g4 \in {P4(g3) : g3 \in
                {P3(g2) : g2 \in {P2(g1) : g1 \in
                    {ServerHorizontalPass(g0, width, height, checks) :
                        g0 \in {Step(AllWall(width, height), MapGeneratorNew(seed), "ok")}}}}}}} :
            TRUE

----------------------------------------------------------------------------
(* The generation harness: test_map_generator_deterministic and its client *)
(* counterpart.  For one context, generate_local runs twice (map1, map2)   *)
(* and two MapGenerators built from the same seed generate once each.      *)

MaxDim == 6
\* a narrow, tall grid, whose centre row may fall between two corridors
TallWidth == 3
TallHeight == 16
TestWidth == 100
TestHeight == 50
\* a grid of 8000 cells and more, the least the server needs to place a nebula
WideWidth == 160

\* seeds: the default 12345, the test's 54321, and 12345 + 2^31
Seeds == {U64(DefaultSeed), U64(54321), <<DefaultSeed, 32768, 0, 0>>}

Sizes ==
    ((1..MaxDim) \X (1..MaxDim))
        \cup {<<TestWidth, TestHeight>>, <<TallWidth, TallHeight>>, <<WideWidth, TestHeight>>}

Contexts ==
    {[seed |-> sd, width |-> sz[1], height |-> sz[2], checks |-> ck] :
        sd \in Seeds, sz \in Sizes, ck \in BOOLEAN}

ClientIds == {"map1", "map2"}
ServerIds == {"generator1", "generator2"}
GenOrder == <<"map1", "map2", "generator1", "generator2">>

NoTiles == <<>>
IdleGen == [pc |-> "idle", tiles |-> NoTiles, rng_state |-> U64(0), status |-> "ok",
            start |-> NoPosition]

Finished(g) == g.pc \in {"done", "failed"}

\* the runs of the harness are sequential: one starts when the one before has ended
Turn(id) ==
    /\ ctx # <<>>
    /\ \E i \in DOMAIN GenOrder :
          /\ GenOrder[i] = id
          /\ \A j \in 1..(i - 1) : Finished(gens[GenOrder[j]])

\* the run id takes the step r from position `from`; a failed step ends the run
Advance(id, from, to, r) ==
    /\ Turn(id)
    /\ gens[id].pc = from
    /\ gens' = [gens EXCEPT ![id] =
                   [@ EXCEPT !.pc = IF r.status = "ok" THEN to ELSE "failed",
                             !.tiles = r.tiles,
                             !.rng_state = r.rng_state,
                             !.status = r.status]]
    /\ op' = <<to, id>>
    /\ UNCHANGED <<ctx, map, player, input_state, chat, renderer, now, last_move_time, pc,
                   seen>>

\* let mut tiles = vec![vec![Tile::Wall; width]; height]; let mut rng_state: u64 = 12345
GenerateLocalBegin(id) ==
    /\ id \in ClientIds
    /\ Advance(id, "idle", "corridors_h",
               Step(AllWall(ctx.width, ctx.height), U64(LocalSeed), "ok"))

GenerateLocalHorizontal(id) ==
    /\ id \in ClientIds
    /\ Advance(id, "corridors_h", "corridors_v",
               ClientHorizontalPass(gens[id], ctx.width, ctx.height, ctx.checks))

GenerateLocalVertical(id) ==
    /\ id \in ClientIds
    /\ Advance(id, "corridors_v", "rooms",
               ClientVerticalPass(gens[id], ctx.width, ctx.height, ctx.checks))

GenerateLocalRooms(id) ==
    /\ id \in ClientIds
    /\ Advance(id, "rooms", "nebulae", ClientRoomPass(gens[id], ctx.width, ctx.height))

GenerateLocalNebulae(id) ==
    /\ id \in ClientIds
    /\ Advance(id, "nebulae", "pillars", ClientNebulaPass(gens[id], ctx.width, ctx.height))

GenerateLocalPillars(id) ==
    /\ id \in ClientIds
    /\ Advance(id, "pillars", "asteroids", ClientPillarPass(gens[id], ctx.width, ctx.height))

GenerateLocalAsteroids(id) ==
    /\ id \in ClientIds
    /\ Advance(id, "asteroids", "seal", ClientAsteroidPass(gens[id], ctx.width, ctx.height))

GenerateLocalSeal(id) ==
    /\ id \in ClientIds
    /\ Advance(id, "seal", "generated", ClientBorderSeal(gens[id], ctx.width, ctx.height))

\* Map { tiles, width, height, start_position: None }
LocalMap(tiles, width, height) ==
    [tiles |-> tiles, width |-> width, height |-> height, start_position |-> NoPosition]

\* let start = map.find_start_position() on the locally generated map
GenerateLocalStart(id) ==
    /\ id \in ClientIds
    /\ Turn(id)
    /\ gens[id].pc = "generated"
    /\ gens' = [gens EXCEPT ![id] =
                   [@ EXCEPT !.pc = "done",
                             !.start = MapFindStartPosition(
                                           LocalMap(gens[id].tiles, ctx.width, ctx.height))]]
    /\ op' = <<"done", id>>
    /\ UNCHANGED <<ctx, map, player, input_state, chat, renderer, now, last_move_time, pc,
                   seen>>

\* MapGenerator::new(seed); let mut tiles = vec![vec![Tile::Wall; width]; height]
GenerateBegin(id) ==
    /\ id \in ServerIds
    /\ Advance(id, "idle", "corridors_h",
               Step(AllWall(ctx.width, ctx.height), MapGeneratorNew(ctx.seed), "ok"))

GenerateHorizontal(id) ==
    /\ id \in ServerIds
    /\ Advance(id, "corridors_h", "passages",
               ServerHorizontalPass(gens[id], ctx.width, ctx.height, ctx.checks))

GeneratePassages(id) ==
    /\ id \in ServerIds
    /\ Advance(id, "passages", "rooms", ServerPassagePass(gens[id], ctx.width, ctx.height))

GenerateRooms(id) ==
    /\ id \in ServerIds
    /\ Advance(id, "rooms", "asteroids",
               ServerRoomPass(gens[id], ctx.width, ctx.height, ctx.checks))

GenerateAsteroids(id) ==
    /\ id \in ServerIds
    /\ Advance(id, "asteroids", "nebulae",
               ServerAsteroidPass(gens[id], ctx.width, ctx.height, ctx.checks))

GenerateNebulae(id) ==
    /\ id \in ServerIds
    /\ Advance(id, "nebulae", "generated",
               ServerNebulaPass(gens[id], ctx.width, ctx.height, ctx.checks))

\* let (start_x, start_y) = self.find_start_position(&tiles, width, height)
GenerateStart(id) ==
    /\ id \in ServerIds
    /\ Turn(id)
    /\ gens[id].pc = "generated"
    /\ gens' = [gens EXCEPT ![id] =
                   [@ EXCEPT !.pc = "done",
                             !.start = ServerFindStartPosition(
                                           gens[id].tiles, ctx.width, ctx.height)]]
    /\ op' = <<"done", id>>
    /\ UNCHANGED <<ctx, map, player, input_state, chat, renderer, now, last_move_time, pc,
                   seen>>

NextGen ==
    \E id \in ClientIds \cup ServerIds :
        \/ GenerateLocalBegin(id)
        \/ GenerateLocalHorizontal(id)
        \/ GenerateLocalVertical(id)
        \/ GenerateLocalRooms(id)
        \/ GenerateLocalNebulae(id)
        \/ GenerateLocalPillars(id)
        \/ GenerateLocalAsteroids(id)
        \/ GenerateLocalSeal(id)
        \/ GenerateLocalStart(id)
        \/ GenerateBegin(id)
        \/ GenerateHorizontal(id)
        \/ GeneratePassages(id)
        \/ GenerateRooms(id)
        \/ GenerateAsteroids(id)
        \/ GenerateNebulae(id)
        \/ GenerateStart(id)

----------------------------------------------------------------------------
(* Values of the variables a specification does not use.                   *)

NoMap == [tiles |-> NoTiles, width |-> 0, height |-> 0, start_position |-> NoPosition]
NoPlayer == [x |-> 0, y |-> 0, direction |-> "Up"]
NoInput == <<>>
NoChat == <<>>
NoRenderer == <<>>
NoContext == <<>>
NoGens == <<>>
\* no key event yet: refresh[k] is the time of the last press or repeat of k, or -1
NoSeen == [refresh |-> [k \in {"Up", "Down", "Left", "Right"} |-> -1], release |-> FALSE]

InitGen ==
    /\ ctx \in Contexts
    /\ gens = [id \in ClientIds \cup ServerIds |-> IdleGen]
    /\ map = NoMap
    /\ player = NoPlayer
    /\ input_state = NoInput
    /\ chat = NoChat
    /\ renderer = NoRenderer
    /\ now = 0
    /\ last_move_time = 0
    /\ pc = "harness"
    /\ op = <<"init", "">>
    /\ seen = NoSeen

SpecGen == InitGen /\ [][NextGen]_vars

----------------------------------------------------------------------------
(* InputState: the per-direction key state machine.                        *)

\* key_timeout: Duration::from_millis(300)
KeyTimeout == 300

DirKeys == {"Up", "Down", "Left", "Right"}
\* NcInputType
EvTypes == {"Press", "Repeat", "Unknown", "Release"}

\* KeyState::default at time t
KeyStateDefault(t) == [held |-> FALSE, last_seen |-> t]

\* InputState::default at time t; key maps NcKey::Up .. NcKey::Right to up .. right
InputStateDefault(t) ==
    [key |-> [k \in DirKeys |-> KeyStateDefault(t)], has_release_support |-> FALSE]

\* update_key whose release event lets go of all four direction keys
UpdateKeyReleaseAll(is, k, evtype, t) ==
    IF k \notin DirKeys THEN is
    ELSE IF evtype \in {"Press", "Repeat", "Unknown"}
    THEN [is EXCEPT !.key[k] = [held |-> TRUE, last_seen |-> t]]
    ELSE [is EXCEPT !.key = [j \in DirKeys |-> [is.key[j] EXCEPT !.held = FALSE]],
                    !.has_release_support = TRUE]

\* InputState::update_key at time t
UpdateKey(is, k, evtype, t) ==
    IF k \notin DirKeys THEN is
    ELSE IF evtype \in {"Press", "Repeat", "Unknown"}
    THEN [is EXCEPT !.key[k] = [held |-> TRUE, last_seen |-> t]]
    ELSE [is EXCEPT !.key[k].held = FALSE, !.has_release_support = TRUE]

\* the timeout check with the window closed at its end (elapsed >= key_timeout)
TimeoutStaleKeysAtWindow(is, t) ==
    IF is.has_release_support THEN is
    ELSE [is EXCEPT !.key =
             [k \in DirKeys |->
                 IF is.key[k].held /\ t - is.key[k].last_seen >= KeyTimeout
                 THEN [is.key[k] EXCEPT !.held = FALSE]
                 ELSE is.key[k]]]

\* the timeout check without the early return on has_release_support
TimeoutStaleKeysAlways(is, t) ==
    [is EXCEPT !.key =
        [k \in DirKeys |->
            IF is.key[k].held /\ t - is.key[k].last_seen > KeyTimeout
            THEN [is.key[k] EXCEPT !.held = FALSE]
            ELSE is.key[k]]]

\* InputState::timeout_stale_keys at time t
TimeoutStaleKeys(is, t) ==
    IF is.has_release_support THEN is
    ELSE [is EXCEPT !.key =
             [k \in DirKeys |->
                 IF is.key[k].held /\ t - is.key[k].last_seen > KeyTimeout
                 THEN [is.key[k] EXCEPT !.held = FALSE]
                 ELSE is.key[k]]]

\* InputState::movement_delta
MovementDelta(is) ==
    <<(IF is.key["Right"].held THEN 1 ELSE 0) - (IF is.key["Left"].held THEN 1 ELSE 0),
      (IF is.key["Down"].held THEN 1 ELSE 0) - (IF is.key["Up"].held THEN 1 ELSE 0)>>

\* InputState::any_movement
AnyMovement(is) == \E k \in DirKeys : is.key[k].held

----------------------------------------------------------------------------
(* Player and Direction.                                                   *)

Directions ==
    {"Up", "UpRight", "Right", "DownRight", "Down", "DownLeft", "Left", "UpLeft"}

\* Direction::from_delta; NoDirection is Option::None
NoDirection == "None"
DirectionFromDelta(dx, dy) ==
    CASE dx = 0 /\ dy = -1 -> "Up"
      [] dx = 1 /\ dy = -1 -> "UpRight"
      [] dx = 1 /\ dy = 0 -> "Right"
      [] dx = 1 /\ dy = 1 -> "DownRight"
      [] dx = 0 /\ dy = 1 -> "Down"
      [] dx = -1 /\ dy = 1 -> "DownLeft"
      [] dx = -1 /\ dy = 0 -> "Left"
      [] dx = -1 /\ dy = -1 -> "UpLeft"
      [] OTHER -> NoDirection

\* Player::new
PlayerNew(x, y) == [x |-> x, y |-> y, direction |-> "Up"]

\* try_move that turns the player only when the move succeeds
TryMoveFacingOnSuccess(p, dx, dy, m) ==
    IF dx = 0 /\ dy = 0 THEN [player |-> p, moved |-> FALSE]
    ELSE LET dir == DirectionFromDelta(dx, dy)
             q == IF dir # NoDirection THEN [p EXCEPT !.direction = dir] ELSE p
         IN  IF MapIsPassable(m, p.x + dx, p.y + dy)
             THEN [player |-> [q EXCEPT !.x = p.x + dx, !.y = p.y + dy], moved |-> TRUE]
             ELSE IF dx # 0 /\ dy # 0 /\ MapIsPassable(m, p.x + dx, p.y)
             THEN [player |-> [q EXCEPT !.x = p.x + dx], moved |-> TRUE]
             ELSE IF dx # 0 /\ dy # 0 /\ MapIsPassable(m, p.x, p.y + dy)
             THEN [player |-> [q EXCEPT !.y = p.y + dy], moved |-> TRUE]
             ELSE [player |-> p, moved |-> FALSE]

\* try_move that slides along the vertical axis before the horizontal one
TryMoveVerticalFirst(p, dx, dy, m) ==
    IF dx = 0 /\ dy = 0 THEN [player |-> p, moved |-> FALSE]
    ELSE LET dir == DirectionFromDelta(dx, dy)
             q == IF dir # NoDirection THEN [p EXCEPT !.direction = dir] ELSE p
         IN  IF MapIsPassable(m, p.x + dx, p.y + dy)
             THEN [player |-> [q EXCEPT !.x = p.x + dx, !.y = p.y + dy], moved |-> TRUE]
             ELSE IF dx # 0 /\ dy # 0 /\ MapIsPassable(m, p.x, p.y + dy)
             THEN [player |-> [q EXCEPT !.y = p.y + dy], moved |-> TRUE]
             ELSE IF dx # 0 /\ dy # 0 /\ MapIsPassable(m, p.x + dx, p.y)
             THEN [player |-> [q EXCEPT !.x = p.x + dx], moved |-> TRUE]
             ELSE [player |-> q, moved |-> FALSE]

\* try_move without the early return on the zero delta
TryMoveNoZeroReturn(p, dx, dy, m) ==
    LET dir == DirectionFromDelta(dx, dy)
        q == IF dir # NoDirection THEN [p EXCEPT !.direction = dir] ELSE p
    IN  IF MapIsPassable(m, p.x + dx, p.y + dy)
        THEN [player |-> [q EXCEPT !.x = p.x + dx, !.y = p.y + dy], moved |-> TRUE]
        ELSE IF dx # 0 /\ dy # 0 /\ MapIsPassable(m, p.x + dx, p.y)
        THEN [player |-> [q EXCEPT !.x = p.x + dx], moved |-> TRUE]
        ELSE IF dx # 0 /\ dy # 0 /\ MapIsPassable(m, p.x, p.y + dy)
        THEN [player |-> [q EXCEPT !.y = p.y + dy], moved |-> TRUE]
        ELSE [player |-> q, moved |-> FALSE]

\* Player::try_move: the player after the call and the value returned
TryMove(p, dx, dy, m) ==
    IF dx = 0 /\ dy = 0 THEN [player |-> p, moved |-> FALSE]
    ELSE LET dir == DirectionFromDelta(dx, dy)
             q == IF dir # NoDirection THEN [p EXCEPT !.direction = dir] ELSE p
         IN  IF MapIsPassable(m, p.x + dx, p.y + dy)
             THEN [player |-> [q EXCEPT !.x = p.x + dx, !.y = p.y + dy], moved |-> TRUE]
             ELSE IF dx # 0 /\ dy # 0 /\ MapIsPassable(m, p.x + dx, p.y)
             THEN [player |-> [q EXCEPT !.x = p.x + dx], moved |-> TRUE]
             ELSE IF dx # 0 /\ dy # 0 /\ MapIsPassable(m, p.x, p.y + dy)
             THEN [player |-> [q EXCEPT !.y = p.y + dy], moved |-> TRUE]
             ELSE [player |-> q, moved |-> FALSE]

----------------------------------------------------------------------------
(* InputState on its own: key events, timeout checks and the clock, in any *)
(* order.                                                                  *)

MaxTime == 452
\* how far the clock moves between two calls
ClockSteps == {KeyTimeout \div 2, KeyTimeout + 1}
\* the keys of the events: the four directions and one other key
EventKeys == DirKeys \cup {"Enter"}

\* the history of the events given to update_key
SeenAfter(sn, k, evtype, t) ==
    IF k \notin DirKeys THEN sn
    ELSE IF evtype = "Release" THEN [sn EXCEPT !.release = TRUE]
    ELSE [sn EXCEPT !.refresh[k] = t]

InputUpdateKey ==
    /\ pc = "input"
    /\ \E k \in EventKeys, evtype \in EvTypes :
          /\ input_state' = UpdateKey(input_state, k, evtype, now)
          /\ seen' = SeenAfter(seen, k, evtype, now)
          /\ op' = <<"update_key", k, evtype>>
    /\ UNCHANGED <<ctx, gens, map, player, chat, renderer, now, last_move_time, pc>>

InputTimeoutStaleKeys ==
    /\ pc = "input"
    /\ input_state' = TimeoutStaleKeys(input_state, now)
    /\ op' = <<"timeout_stale_keys",
               {k \in DirKeys : input_state.key[k].held /\ ~input_state'.key[k].held}>>
    /\ UNCHANGED <<ctx, gens, map, player, chat, renderer, now, last_move_time, pc, seen>>

InputClock ==
    /\ pc = "input"
    /\ \E d \in ClockSteps :
          /\ now + d <= MaxTime
          /\ now' = now + d
          /\ op' = <<"clock", d>>
    /\ UNCHANGED <<ctx, gens, map, player, input_state, chat, renderer, last_move_time, pc,
                   seen>>

NextInput == InputUpdateKey \/ InputTimeoutStaleKeys \/ InputClock

InitInput ==
    /\ ctx = NoContext
    /\ gens = NoGens
    /\ map = NoMap
    /\ player = NoPlayer
    /\ input_state = InputStateDefault(0)
    /\ chat = NoChat
    /\ renderer = NoRenderer
    /\ now = 0
    /\ last_move_time = 0
    /\ pc = "input"
    /\ op = <<"init", "">>
    /\ seen = NoSeen

SpecInput == InitInput /\ [][NextInput]_vars

----------------------------------------------------------------------------
(* ChatWindow.  A String is the sequence of its UTF-8 bytes: the first byte *)
(* of a character stands under the character's name, each byte after it is  *)
(* Continuation.  The cursor of the window is a byte offset into the input.  *)

\* a byte 10xxxxxx, inside a character
Continuation == "cont"

\* char::len_utf8, for the characters of the model
LenUtf8(ch) ==
    CASE ch = "U+00E9" -> 2
      [] ch = "U+20AC" -> 3
      [] OTHER -> 1

\* the bytes of a character
Utf8(ch) == <<ch>> \o [i \in 1..(LenUtf8(ch) - 1) |-> Continuation]

\* str::is_char_boundary
IsCharBoundary(str, i) ==
    \/ i = 0
    \/ i = Len(str)
    \/ i \in 1..(Len(str) - 1) /\ str[i + 1] # Continuation

\* the offset of the character after the one that starts at the boundary i < Len(str)
NextStart(str, i) ==
    CHOOSE j \in (i + 1)..Len(str) :
        IsCharBoundary(str, j) /\ \A k \in (i + 1)..(j - 1) : ~IsCharBoundary(str, k)

\* str[..i].char_indices().last().map(|(i, _)| i).unwrap_or(0), for a boundary i
LastCharStart(str, i) ==
    IF i = 0 THEN 0
    ELSE CHOOSE j \in 0..(i - 1) :
             IsCharBoundary(str, j) /\ \A k \in (j + 1)..(i - 1) : ~IsCharBoundary(str, k)

\* String::insert(idx, ch) panics when idx is no character boundary of the string
InsertPanics(str, idx) == ~IsCharBoundary(str, idx)
\* String::insert(idx, ch)
StringInsert(str, idx, ch) ==
    SubSeq(str, 1, idx) \o Utf8(ch) \o SubSeq(str, idx + 1, Len(str))

\* String::remove(idx) panics when no character starts at idx
RemovePanics(str, idx) == idx >= Len(str) \/ ~IsCharBoundary(str, idx)
\* String::remove(idx): the character that starts at idx goes, with all its bytes
StringRemove(str, idx) ==
    SubSeq(str, 1, idx) \o SubSeq(str, NextStart(str, idx) + 1, Len(str))

\* str[..i] and str[i..] panic when i is no character boundary of the string
SlicePanics(str, i) == ~IsCharBoundary(str, i)

\* a window whose operation panicked
Panicked == [panicked |-> TRUE]

\* ChatMessage::system, ChatMessage::user, ChatMessage::error
ChatMessageSystem(text) == [text |-> text, color |-> Rgb(255, 255, 0)]
ChatMessageUser(text) == [text |-> text, color |-> Rgb(0, 255, 0)]
ChatMessageError(text) == [text |-> text, color |-> Rgb(255, 68, 68)]

\* max_messages: 100
MaxMessages == 100

\* ChatWindow::default
ChatWindowDefault ==
    [active |-> FALSE, input |-> <<>>, cursor |-> 0, messages |-> <<>>,
     max_messages |-> MaxMessages]

\* add_message that drops the newest message when the history is full
ChatAddMessageDropNewest(c, message) ==
    IF Len(c.messages) + 1 > c.max_messages THEN c
    ELSE [c EXCEPT !.messages = Append(c.messages, message)]

\* ChatWindow::add_message
ChatAddMessage(c, message) ==
    LET pushed == Append(c.messages, message)
    IN  [c EXCEPT !.messages = IF Len(pushed) > c.max_messages THEN Tail(pushed)
                                ELSE pushed]

\* the text of the welcome message stands under its first word
ChatWindowNew == ChatAddMessage(ChatWindowDefault, ChatMessageSystem("Welcome"))

\* ChatWindow::toggle
ChatToggle(c) ==
    IF c.active THEN [c EXCEPT !.active = FALSE, !.input = <<>>, !.cursor = 0]
    ELSE [c EXCEPT !.active = TRUE]

\* ChatWindow::open
ChatOpen(c) == [c EXCEPT !.active = TRUE]

\* close that keeps the draft
ChatCloseKeepDraft(c) == [c EXCEPT !.active = FALSE]

\* ChatWindow::close
ChatClose(c) == [c EXCEPT !.active = FALSE, !.input = <<>>, !.cursor = 0]

\* insert_char that advances the cursor by one byte, whatever the character
ChatInsertCharOneByte(c, ch) ==
    IF InsertPanics(c.input, c.cursor) THEN Panicked
    ELSE [c EXCEPT !.input = StringInsert(c.input, c.cursor, ch), !.cursor = c.cursor + 1]

\* ChatWindow::insert_char
ChatInsertChar(c, ch) ==
    IF InsertPanics(c.input, c.cursor) THEN Panicked
    ELSE [c EXCEPT !.input = StringInsert(c.input, c.cursor, ch),
                   !.cursor = c.cursor + LenUtf8(ch)]

\* ChatWindow::backspace
ChatBackspace(c) ==
    IF c.cursor > 0
    THEN IF SlicePanics(c.input, c.cursor) THEN Panicked
         ELSE LET prev == LastCharStart(c.input, c.cursor)
              IN  [c EXCEPT !.input = StringRemove(c.input, prev), !.cursor = prev]
    ELSE c

\* ChatWindow::delete
ChatDelete(c) ==
    IF c.cursor < Len(c.input)
    THEN IF RemovePanics(c.input, c.cursor) THEN Panicked
         ELSE [c EXCEPT !.input = StringRemove(c.input, c.cursor)]
    ELSE c

\* ChatWindow::cursor_left
ChatCursorLeft(c) ==
    IF c.cursor > 0
    THEN IF SlicePanics(c.input, c.cursor) THEN Panicked
         ELSE [c EXCEPT !.cursor = LastCharStart(c.input, c.cursor)]
    ELSE c

\* ChatWindow::cursor_right: .nth(1) is the start of the next character, if there is one
ChatCursorRight(c) ==
    IF c.cursor < Len(c.input)
    THEN IF SlicePanics(c.input, c.cursor) THEN Panicked
         ELSE [c EXCEPT !.cursor = IF NextStart(c.input, c.cursor) < Len(c.input)
                                   THEN NextStart(c.input, c.cursor)
                                   ELSE Len(c.input)]
    ELSE c

\* ChatWindow::cursor_home
ChatCursorHome(c) == [c EXCEPT !.cursor = 0]

\* ChatWindow::cursor_end
ChatCursorEnd(c) == [c EXCEPT !.cursor = Len(c.input)]

\* Option<String>::None, the value of submit on an empty input
NoText == "None"

\* submit that keeps the window open
ChatSubmitStayOpen(c) ==
    IF c.input = <<>>
    THEN [chat |-> ChatClose(c), text |-> NoText]
    ELSE [chat |-> [ChatAddMessage(c, ChatMessageUser(c.input))
                       EXCEPT !.input = <<>>, !.cursor = 0],
          text |-> c.input]

\* ChatWindow::submit: the window after the call and the text returned
ChatSubmit(c) ==
    IF c.input = <<>>
    THEN [chat |-> ChatClose(c), text |-> NoText]
    ELSE [chat |-> [ChatAddMessage(c, ChatMessageUser(c.input))
                       EXCEPT !.input = <<>>, !.cursor = 0, !.active = FALSE],
          text |-> c.input]

RECURSIVE TrimStart(_)
\* str::trim_start, for the white space of the model: the space
TrimStart(str) ==
    IF str # <<>> /\ Head(str) = " " THEN TrimStart(Tail(str)) ELSE str

RECURSIVE TrimEnd(_)
TrimEnd(str) ==
    IF str # <<>> /\ str[Len(str)] = " "
    THEN TrimEnd(SubSeq(str, 1, Len(str) - 1)) ELSE str

\* str::trim
Trim(str) == TrimEnd(TrimStart(str))

RECURSIVE FirstSpace(_, _)
\* the index of the first space of str at or after i, or 0
FirstSpace(str, i) ==
    IF i > Len(str) THEN 0
    ELSE IF str[i] = " " THEN i ELSE FirstSpace(str, i + 1)

\* cmd.splitn(2, ' ').collect()
SplitN2(str) ==
    LET i == FirstSpace(str, 1)
    IN  IF i = 0 THEN <<str>>
        ELSE <<SubSeq(str, 1, i - 1), SubSeq(str, i + 1, Len(str))>>

RECURSIVE SplitWhitespace(_)
\* args.split_whitespace().collect()
SplitWhitespace(str) ==
    LET t == TrimStart(str)
        i == FirstSpace(t, 1)
    IN  IF t = <<>> THEN <<>>
        ELSE IF i = 0 THEN <<t>>
        ELSE <<SubSeq(t, 1, i - 1)>> \o SplitWhitespace(SubSeq(t, i + 1, Len(t)))

UpperCase ==
    <<"A", "B", "C", "D", "E", "F", "G", "H", "I", "J", "K", "L", "M",
      "N", "O", "P", "Q", "R", "S", "T", "U", "V", "W", "X", "Y", "Z">>
LowerCase ==
    <<"a", "b", "c", "d", "e", "f", "g", "h", "i", "j", "k", "l", "m",
      "n", "o", "p", "q", "r", "s", "t", "u", "v", "w", "x", "y", "z">>

\* str::to_lowercase
ToLowercase(str) ==
    [i \in DOMAIN str |->
        IF \E j \in DOMAIN UpperCase : UpperCase[j] = str[i]
        THEN LowerCase[CHOOSE j \in DOMAIN UpperCase : UpperCase[j] = str[i]]
        ELSE str[i]]

Digits == <<"0", "1", "2", "3", "4", "5", "6", "7", "8", "9">>

IsDigit(ch) == \E j \in DOMAIN Digits : Digits[j] = ch

DigitValue(ch) == (CHOOSE j \in DOMAIN Digits : Digits[j] = ch) - 1

RECURSIVE DecimalValue(_, _)
DecimalValue(str, acc) ==
    IF str = <<>> THEN acc ELSE DecimalValue(Tail(str), (10 * acc) + DigitValue(Head(str)))

(* coords[i].parse::<i32>(): an optional sign and one digit or more.  The   *)
(* value is exact for up to nine digits; the longer tokens, which may leave *)
(* the range of i32 and fail, are not among the inputs of the model.        *)
ParseI32(str) ==
    LET signed == str # <<>> /\ Head(str) \in {"+", "-"}
        digits == IF signed THEN Tail(str) ELSE str
    IN  IF digits # <<>> /\ \A i \in DOMAIN digits : IsDigit(digits[i])
        THEN [ok |-> TRUE,
              value |-> IF signed /\ Head(str) = "-"
                        THEN 0 - DecimalValue(digits, 0) ELSE DecimalValue(digits, 0)]
        ELSE [ok |-> FALSE, value |-> 0]

\* enum ChatCommand, and Option::None
NoCommand == [kind |-> "None", x |-> 0, y |-> 0]
Command(kind) == [kind |-> kind, x |-> 0, y |-> 0]
CommandTeleport(x, y) == [kind |-> "Teleport", x |-> x, y |-> y]

\* ChatWindow::process_input: the command returned
ProcessInput(txt) ==
    LET text == Trim(txt)
    IN  IF text = <<>> THEN NoCommand
        ELSE IF Head(text) = "/"
        THEN LET parts == SplitN2(Tail(text))
                 command == ToLowercase(parts[1])
             IN  CASE command \in {<<"h", "e", "l", "p">>, <<"?">>} -> NoCommand
                   [] command \in {<<"q", "u", "i", "t">>, <<"e", "x", "i", "t">>, <<"q">>} ->
                          Command("Quit")
                   [] command \in {<<"p", "o", "s">>,
                                   <<"p", "o", "s", "i", "t", "i", "o", "n">>,
                                   <<"w", "h", "e", "r", "e">>} ->
                          Command("ShowPosition")
                   [] command \in {<<"g", "o", "t", "o">>, <<"t", "p">>,
                                   <<"t", "e", "l", "e", "p", "o", "r", "t">>} ->
                          LET coords == IF Len(parts) = 2
                                        THEN SplitWhitespace(parts[2]) ELSE <<>>
                          IN  IF Len(coords) >= 2
                                 /\ ParseI32(coords[1]).ok /\ ParseI32(coords[2]).ok
                              THEN CommandTeleport(ParseI32(coords[1]).value,
                                                   ParseI32(coords[2]).value)
                              ELSE NoCommand
                   [] command \in {<<"f", "x">>, <<"e", "f", "f", "e", "c", "t", "s">>} ->
                          Command("ToggleEffects")
                   [] OTHER -> NoCommand
        ELSE NoCommand

----------------------------------------------------------------------------
(* Player::try_move on its own: a player put anywhere on a small grid and   *)
(* moved by any delta of -1..1 on each axis.                                *)

MoveDim == 3
MaxOpen == 3

MoveCells == (0..(MoveDim - 1)) \X (0..(MoveDim - 1))

(* A grid whose passable cells are those of open.  The kind of a cell among *)
(* the passable ones (Floor, Nebula) and among the others (Wall, Asteroid)  *)
(* goes by the parity of x + y, so that the four kinds of tile occur.       *)
MoveTiles(open) ==
    [y \in 0..(MoveDim - 1) |->
        [x \in 0..(MoveDim - 1) |->
            IF <<x, y>> \in open
            THEN (IF (x + y) % 2 = 0 THEN Floor ELSE Nebula)
            ELSE (IF (x + y) % 2 = 0 THEN Asteroid ELSE Wall)]]

MoveMaps ==
    {LocalMap(MoveTiles(open), MoveDim, MoveDim) :
        open \in {o \in SUBSET MoveCells : Cardinality(o) <= MaxOpen}}

\* the deltas main passes to try_move: movement_delta gives -1, 0 or 1 on each axis
MoveDeltas == -1..1

\* player.try_move(dx, dy, &map); op keeps the call, its result and the position before
MoveTryMove ==
    /\ pc = "move"
    /\ \E dx \in MoveDeltas, dy \in MoveDeltas :
          LET r == TryMove(player, dx, dy, map)
          IN  /\ player' = r.player
              /\ op' = <<"try_move", dx, dy, r.moved, player.x, player.y>>
    /\ UNCHANGED <<ctx, gens, map, input_state, chat, renderer, now, last_move_time, pc, seen>>

NextMove == MoveTryMove

InitMove ==
    /\ ctx = NoContext
    /\ gens = NoGens
    /\ map \in MoveMaps
    /\ \E c \in MoveCells : player = PlayerNew(c[1], c[2])
    /\ input_state = NoInput
    /\ chat = NoChat
    /\ renderer = NoRenderer
    /\ now = 0
    /\ last_move_time = 0
    /\ pc = "move"
    /\ op = <<"init", "">>
    /\ seen = NoSeen

SpecMove == InitMove /\ [][NextMove]_vars

----------------------------------------------------------------------------
(* The client session: main.  pc is the position in the loop: "boot"       *)
(* before the bootstrap, "drain" in the inner loop that reads the pending   *)
(* input, "frame" after it, "sleep" at the end of the iteration, "stopped"  *)
(* after the loop.                                                          *)

(* The grid of a session is 500 x 200, from the server or from the local    *)
(* fallback.  The session of the model runs the same two generators at      *)
(* SessionWidth x SessionHeight.                                            *)
SessionWidth == 7
SessionHeight == 6
\* the iterations of the main loop the model follows
MaxFrames == 3

\* let move_delay = Duration::from_millis(33)
MoveDelay == 33
\* std::thread::sleep(Duration::from_millis(16))
FrameSleep == 16

(* The time from one drain of the input to the next one: the sleep and the  *)
(* rest of the iteration, or as much again as the key timeout when the      *)
(* terminal stalls.                                                         *)
FrameTimes == {FrameSleep + 1, FrameSleep + 1 + KeyTimeout}

\* a movement step that waits for no interval
MoveDueAlways(t, last) == TRUE

\* last_move_time.elapsed() >= move_delay, at time t
MoveDue(t, last) == t - last >= MoveDelay

\* a movement step that goes on in chat mode
MovementEnabledAlways(c) == TRUE

\* if !chat.active: the gate of the movement step
MovementEnabled(c) == ~c.active

\* history of a session: the times of the last movement step and of the last
\* step that moved the player, or -1
NoSteps == [step |-> -1, moved |-> -1]

\* Renderer::new(config.effects_enabled); the frame counter is a u64
RendererNew(effects_enabled) == [frame |-> U64(0), effects_enabled |-> effects_enabled]

\* toggle_effects that also restarts the animation clock
ToggleEffectsRestart(r) == [frame |-> U64(0), effects_enabled |-> ~r.effects_enabled]

\* Renderer::toggle_effects
ToggleEffects(r) == [r EXCEPT !.effects_enabled = ~r.effects_enabled]

RECURSIVE WrappingInc(_, _)
\* u64::wrapping_add(1) on the limbs of a u64, from limb i on
WrappingInc(n, i) ==
    IF i > Len(n) THEN n
    ELSE IF n[i] + 1 < Limb THEN [n EXCEPT ![i] = n[i] + 1]
    ELSE WrappingInc([n EXCEPT ![i] = 0], i + 1)

\* Renderer::tick
Tick(r) == [r EXCEPT !.frame = WrappingInc(r.frame, 1)]

\* the teleport that does not ask whether the target is passable
TeleportUnchecked(p, x, y, m) == [player |-> [p EXCEPT !.x = x, !.y = y], moved |-> TRUE]

(* The window of a session without its history.  The messages that submit, *)
(* process_input and the commands add are read by the painter only: the     *)
(* session of the model does not keep them.                                 *)
WithoutMessages(c) == [c EXCEPT !.messages = <<>>]

\* ChatCommand::Teleport(x, y) in main: the player after it, and whether it moved
Teleport(p, x, y, m) ==
    IF MapIsPassable(m, x, y)
    THEN [player |-> [p EXCEPT !.x = x, !.y = y], moved |-> TRUE]
    ELSE [player |-> p, moved |-> FALSE]

\* Enter in chat mode with a Quit command that leaves the loop running
ChatEnterStay(c, p, r, m) ==
    LET sub == ChatSubmit(c)
        cmd == IF sub.text = NoText THEN NoCommand ELSE ProcessInput(sub.text)
    IN  [chat |-> WithoutMessages(sub.chat),
         player |-> IF cmd.kind = "Teleport" THEN Teleport(p, cmd.x, cmd.y, m).player ELSE p,
         renderer |-> IF cmd.kind = "ToggleEffects" THEN ToggleEffects(r) ELSE r,
         quit |-> FALSE,
         cmd |-> cmd]

(* NcKey::Enter in chat mode: submit, process_input and the command.  A     *)
(* record of the chat window, the player and the renderer after it, of      *)
(* whether the loop is left, and of the command run.                        *)
ChatEnter(c, p, r, m) ==
    LET sub == ChatSubmit(c)
        cmd == IF sub.text = NoText THEN NoCommand ELSE ProcessInput(sub.text)
    IN  [chat |-> WithoutMessages(sub.chat),
         player |-> IF cmd.kind = "Teleport" THEN Teleport(p, cmd.x, cmd.y, m).player ELSE p,
         renderer |-> IF cmd.kind = "ToggleEffects" THEN ToggleEffects(r) ELSE r,
         quit |-> cmd.kind = "Quit",
         cmd |-> cmd]

\* the keys main matches on
SessionKeys ==
    DirKeys \cup {"Enter", "Esc", "Backspace", "Del", "Home", "End", "Resize"}

\* NcReceived::Key(key) in chat mode, but for Enter: the chat window after it
ChatKey(c, key) ==
    CASE key = "Esc" -> ChatClose(c)
      [] key = "Backspace" -> ChatBackspace(c)
      [] key = "Del" -> ChatDelete(c)
      [] key = "Left" -> ChatCursorLeft(c)
      [] key = "Right" -> ChatCursorRight(c)
      [] key = "Home" -> ChatCursorHome(c)
      [] key = "End" -> ChatCursorEnd(c)
      [] OTHER -> c

(* What is typed in the session.  The lines of TypedLines are typed from    *)
(* left to right: a character arrives in chat mode only when the input      *)
(* stays the beginning of one of them.                                      *)
TeleportLine(x, y) == <<"/", "t", "p", " ", x, " ", y>>
TypedLines ==
    {TeleportLine("5", "4"), TeleportLine("0", "0"), TeleportLine("9", "9"), <<"/", "q">>}
TypedPrefixes == UNION {{SubSeq(l, 1, n) : n \in 0..Len(l)} : l \in TypedLines}
TypedChars == {"/", "t", "p", " ", "5", "4", "0", "9", "q"}
\* the keys that arrive in every session, besides its direction keys
TypedKeys == {"Enter", "Esc", "Backspace"}
(* What the user of a session presses: two direction keys that combine     *)
(* into a diagonal and the characters of the typed lines, or two opposite   *)
(* direction keys and the characters main reads in game mode.               *)
SessionInputs ==
    {[keys |-> {"Right", "Down"}, chars |-> TypedChars],
     [keys |-> {"Down", "Up"}, chars |-> {"b", "B", "q", "Q"}]}
\* the kinds of their events: update_key takes Repeat and Unknown as it takes Press
TypedEvents == {"Press", "Release"}

(* How a request to the server comes out: a response with a success status *)
(* and a body that decodes to MapData, no response (transport error), a     *)
(* response with another status, or a body that does not decode.            *)
FetchOutcomes == {"ok", "transport", "status", "decode"}

\* Result<Map, String>
Err == [ok |-> FALSE, map |-> NoMap]
Ok(m) == [ok |-> TRUE, map |-> m]

\* Map::fetch_from_server, for the outcome of its request and the payload served
FetchFromServer(outcome, payload) ==
    IF outcome = "transport" THEN Err
    ELSE IF outcome = "status" THEN Err
    ELSE IF outcome = "decode" THEN Err
    ELSE Ok([tiles |-> payload.tiles, width |-> payload.width, height |-> payload.height,
             start_position |-> payload.start])

(* Map::new that asks the server a second time when the first request       *)
(* fails.                                                                   *)
MapNewRetry(outcomes, payload, local, width, height) ==
    LET first == FetchFromServer(outcomes[1], payload)
        second == FetchFromServer(outcomes[2], payload)
    IN  IF first.ok THEN [map |-> first.map, requests |-> 1]
        ELSE IF second.ok THEN [map |-> second.map, requests |-> 2]
        ELSE [map |-> LocalMap(local.tiles, width, height), requests |-> 2]

(* Map::new.  outcomes[n] is how the n-th request to the server would come  *)
(* out, local the run of generate_local(width, height); the result is the   *)
(* map and the number of requests made.                                     *)
MapNew(outcomes, payload, local, width, height) ==
    LET first == FetchFromServer(outcomes[1], payload)
    IN  IF first.ok THEN [map |-> first.map, requests |-> 1]
        ELSE [map |-> LocalMap(local.tiles, width, height), requests |-> 1]

\* Map::new, then find_start_position, Player::new and the rest of the set-up
Bootstrap ==
    /\ pc = "boot"
    /\ \E outcomes \in FetchOutcomes \X FetchOutcomes,
          payload \in {Generate(ctx.seed, ctx.width, ctx.height, ctx.checks)},
          local \in {GenerateLocal(ctx.width, ctx.height, ctx.checks)} :
          \E new \in {MapNew(outcomes, payload, local, ctx.width, ctx.height)} :
              \* the server answers with a payload only when its generator has run
              /\ outcomes[1] = "ok" => payload.status = "ok"
              /\ outcomes[1] # "ok" => local.status = "ok"
              /\ map' = new.map
              /\ \E start \in {MapFindStartPosition(new.map)} :
                    player' = PlayerNew(start[1], start[2])
              /\ op' = <<"bootstrap", outcomes, new.requests>>
    /\ renderer' = RendererNew(FALSE)
    /\ chat' = WithoutMessages(ChatWindowNew)
    /\ input_state' = InputStateDefault(now)
    /\ last_move_time' = now
    /\ pc' = "drain"
    /\ UNCHANGED <<ctx, gens, now, seen>>

\* NcReceived::NoInput, or Err(_): the inner loop ends; quit is false
RecvNoInput ==
    /\ pc = "drain"
    /\ pc' = "frame"
    /\ op' = <<"no_input">>
    /\ UNCHANGED <<ctx, gens, map, player, input_state, chat, renderer, now, last_move_time,
                   seen>>

\* NcReceived::Char(ch); op keeps the character when it is one that quits in game mode
RecvChar ==
    /\ pc = "drain"
    /\ \E ch \in ctx.chars :
          /\ IF chat.active
             THEN /\ ChatInsertChar(chat, ch).input \in TypedPrefixes
                  /\ chat' = ChatInsertChar(chat, ch)
                  /\ UNCHANGED <<renderer, pc>>
             ELSE /\ chat' = IF ch = "/" THEN ChatInsertChar(ChatOpen(chat), "/") ELSE chat
                  /\ renderer' = IF ch \in {"b", "B"} THEN ToggleEffects(renderer)
                                 ELSE renderer
                  /\ pc' = IF ch \in {"q", "Q"} THEN "stopped" ELSE pc
          /\ op' = IF ch \in {"q", "Q"} THEN <<"recv", ch>> ELSE <<"recv">>
    /\ UNCHANGED <<ctx, gens, map, player, input_state, now, last_move_time, seen>>

\* what op keeps of a key event: the key, when the event releases a direction key held
KeyOp(is, key, evtype) ==
    IF key \in DirKeys /\ evtype = "Release" /\ is.key[key].held
    THEN <<"recv", key, evtype>>
    ELSE <<"recv">>

\* NcReceived::Key(key), with the kind of event evtype
RecvKey ==
    /\ pc = "drain"
    /\ \E key \in TypedKeys \cup ctx.keys, evtype \in TypedEvents :
          IF chat.active
          THEN IF key = "Enter"
               THEN LET e == ChatEnter(chat, player, renderer, map)
                    IN  /\ chat' = e.chat
                        /\ player' = e.player
                        /\ renderer' = e.renderer
                        /\ pc' = IF e.quit THEN "stopped" ELSE pc
                        /\ op' = <<"enter", e.cmd.kind, player # e.player>>
                        /\ UNCHANGED input_state
               ELSE /\ chat' = ChatKey(chat, key)
                    /\ op' = KeyOp(input_state, key, evtype)
                    /\ UNCHANGED <<player, renderer, pc, input_state>>
          ELSE /\ chat' = IF key = "Enter" THEN ChatOpen(chat) ELSE chat
               /\ input_state' = UpdateKey(input_state, key, evtype, now)
               /\ op' = KeyOp(input_state, key, evtype)
               /\ UNCHANGED <<player, renderer, pc>>
    /\ UNCHANGED <<ctx, gens, map, now, last_move_time, seen>>

(* The rest of the iteration up to the sleep: timeout_stale_keys and the    *)
(* movement step when chat is not active, then renderer.tick().             *)
Frame ==
    /\ pc = "frame"
    /\ LET is == IF MovementEnabled(chat) THEN TimeoutStaleKeys(input_state, now)
                 ELSE input_state
           step == MovementEnabled(chat) /\ AnyMovement(is) /\ MoveDue(now, last_move_time)
           delta == MovementDelta(is)
           r == TryMove(player, delta[1], delta[2], map)
       IN  /\ input_state' = is
           /\ player' = IF step THEN r.player ELSE player
           /\ last_move_time' = IF step THEN now ELSE last_move_time
           /\ op' = <<"frame", step, step /\ r.moved>>
           /\ seen' = [step |-> IF step THEN now ELSE seen.step,
                       moved |-> IF step /\ r.moved THEN now ELSE seen.moved]
    /\ renderer' = Tick(renderer)
    /\ pc' = "sleep"
    /\ UNCHANGED <<ctx, gens, map, chat, now>>

\* the sleep at the end of the iteration; the next drain comes d ms after the last
Sleep ==
    /\ pc = "sleep"
    /\ renderer.frame \in {U64(n) : n \in 0..(MaxFrames - 1)}
    /\ \E d \in FrameTimes : now' = now + d
    /\ pc' = "drain"
    /\ op' = <<"sleep">>
    /\ UNCHANGED <<ctx, gens, map, player, input_state, chat, renderer, last_move_time, seen>>

Next == Bootstrap \/ RecvNoInput \/ RecvChar \/ RecvKey \/ Frame \/ Sleep

(* The context of the session's generators: the server's defaults for the  *)
(* seed, and the size of the session.  No subtraction underflows at this    *)
(* size, so the build's overflow checks make no difference.                 *)
SessionContext ==
    [seed |-> U64(DefaultSeed), width |-> SessionWidth, height |-> SessionHeight,
     checks |-> TRUE]

\* the session's context with what its user presses
SessionContexts == {SessionContext @@ in : in \in SessionInputs}

Init ==
    /\ ctx \in SessionContexts
    /\ gens = NoGens
    /\ map = NoMap
    /\ player = NoPlayer
    /\ input_state = NoInput
    /\ chat = NoChat
    /\ renderer = NoRenderer
    /\ now = 0
    /\ last_move_time = 0
    /\ pc = "boot"
    /\ op = <<"init", "">>
    /\ seen = NoSteps

Spec == Init /\ [][Next]_vars

----------------------------------------------------------------------------
(* Renderer::render_tile and hash_position.  A u32 is kept as two 16-bit    *)
(* limbs, least significant first.                                          *)

\* n as u32, for an i32 n (the two's complement of a negative n) or a u32 below 2^31
ToU32(n) == <<n % Limb, (n \div Limb) % Limb>>

\* the low 32 bits of a u64
LowU32(n) == <<n[1], n[2]>>

\* a u32 as i32
ToI32(h) == IF h[2] < Limb \div 2 THEN h[2] * Limb + h[1] ELSE (h[2] - Limb) * Limb + h[1]

RECURSIVE XorBits(_, _, _)
\* a ^ b on the n low bits of a and b
XorBits(a, b, n) ==
    IF n = 0 THEN 0
    ELSE ((a + b) % 2) + 2 * XorBits(a \div 2, b \div 2, n - 1)

\* a ^ b on u32
Xor32(a, b) == <<XorBits(a[1], b[1], 16), XorBits(a[2], b[2], 16)>>

\* h >> 13 and h >> 16 on u32
Shr13(h) == <<((h[1] \div 8192) + (h[2] % 8192) * 8) % Limb, h[2] \div 8192>>
Shr16(h) == <<h[2], 0>>

\* the low 16 bits of a * c, for a and c below 2^16
MulLow16(a, c) == (a * (c % 256) + ((a * (c \div 256)) % 256) * 256) % Limb

\* u32::wrapping_mul
WrappingMul32(a, c) ==
    LET u == a[1] * (c[1] % 256)
        v == a[1] * (c[1] \div 256)
        w == u + (v % 256) * 256
        carry == (w \div Limb) + (v \div 256)
    IN  <<w % Limb, (carry + MulLow16(a[1], c[2]) + MulLow16(a[2], c[1])) % Limb>>

\* u32::wrapping_add
WrappingAdd32(a, b) ==
    <<(a[1] + b[1]) % Limb, (a[2] + b[2] + ((a[1] + b[1]) \div Limb)) % Limb>>

\* a + b on u32 overflows
AddOverflows32(a, b) == a[2] + b[2] + ((a[1] + b[1]) \div Limb) >= Limb

\* h % m on u32, for a small m
Mod32(h, m) == ((h[2] % m) * (Limb % m) + (h[1] % m)) % m

\* n % m on u64, for a small m
Mod64(n, m) ==
    LET r4 == n[4] % m
        r3 == (r4 * Limb + n[3]) % m
        r2 == (r3 * Limb + n[2]) % m
    IN  (r2 * Limb + n[1]) % m

\* n / d on u64, for a small d
Div64(n, d) ==
    LET r4 == n[4] % d
        r3 == (r4 * Limb + n[3]) % d
        r2 == (r3 * Limb + n[2]) % d
    IN  <<(r2 * Limb + n[1]) \div d, (r3 * Limb + n[2]) \div d,
          (r4 * Limb + n[3]) \div d, n[4] \div d>>

\* h / d on u32, for a small d
Div32(h, d) == <<((h[2] % d) * Limb + h[1]) \div d, h[2] \div d>>

\* a / d and a % d on i32, for d > 0: the quotient is rounded towards zero
TruncDiv(a, d) == IF a >= 0 \/ a % d = 0 THEN a \div d ELSE (a \div d) + 1
TruncRem(a, d) == a - d * TruncDiv(a, d)

\* the multipliers of hash_position
HashMulX == 374761393
HashMulY == 668265263
HashMulSeed == 1013904223
HashMulMix == 1274126177

\* hash_position(x, y, seed)
HashPosition(x, y, seed) ==
    LET h1 == WrappingMul32(ToU32(x), ToU32(HashMulX))
        h2 == WrappingAdd32(h1, WrappingMul32(ToU32(y), ToU32(HashMulY)))
        h3 == WrappingAdd32(h2, WrappingMul32(ToU32(seed), ToU32(HashMulSeed)))
        h4 == Xor32(h3, Shr13(h3))
        h5 == WrappingMul32(h4, ToU32(HashMulMix))
    IN  Xor32(h5, Shr16(h5))

\* star_chars and asteroid_chars of Renderer::new
StarChars == <<".", "+", "*", "o">>
AsteroidChars == <<"o", "O", "0", "@">>

\* the block glyphs of the walls stand under their names
FullBlock == "FullBlock"
DarkShade == "DarkShade"
MediumShade == "MediumShade"

\* the call does not return: an arithmetic overflow with overflow checks on
Panic == "panic"

\* i32::MAX
MaxI32 == 2147483647

(* a + b on i32: the sum in two's complement and whether it overflowed      *)
AddI32(a, b) ==
    IF b > 0 /\ a > MaxI32 - b
    THEN [value |-> ((a - MaxI32) - 1) + ((b - MaxI32) - 1), overflow |-> TRUE]
    ELSE IF b < 0 /\ a < ((-MaxI32) - 1) - b
    THEN [value |-> ((a + MaxI32) + 1) + ((b + MaxI32) + 1), overflow |-> TRUE]
    ELSE [value |-> a + b, overflow |-> FALSE]

\* .max(0).min(255)
Clamp(v) == Min(Max(v, 0), 255)

\* render_tile with effects disabled
RenderSimple(tile) ==
    CASE tile = Wall -> <<FullBlock, Rgb(64, 96, 160)>>
      [] tile = Floor -> <<" ", 0>>
      [] tile = Asteroid -> <<"@", Rgb(128, 128, 128)>>
      [] tile = Nebula -> <<" ", 0>>
      [] OTHER -> <<" ", 0>>

\* Some(Tile::Wall)
RenderWall(pos_hash) ==
    LET wall_variant == Mod32(pos_hash, 100)
        base_color == IF wall_variant < 70 THEN Rgb(32, 80 + Mod32(pos_hash, 32), 192)
                      ELSE IF wall_variant < 85 THEN Rgb(48, 144, 160)
                      ELSE Rgb(96, 64, 128)
        ch == IF Mod32(pos_hash, 12) <= 9 THEN FullBlock
              ELSE IF Mod32(pos_hash, 12) = 10 THEN DarkShade
              ELSE MediumShade
    IN  <<ch, base_color>>

\* Some(Tile::Floor)
RenderFloor(r, pos_hash) ==
    LET star_chance == Mod32(pos_hash, 50)
        twinkle == (Mod64(Div64(r.frame, 16), 4) + Mod32(pos_hash, 4)) % 4
        colors == <<Rgb(192, 192, 192), Rgb(208, 208, 160), Rgb(160, 192, 192),
                    Rgb(192, 192, 192)>>
    IN  IF star_chance = 0 THEN <<StarChars[twinkle + 1], colors[twinkle + 1]>>
        ELSE IF star_chance = 1 THEN <<".", Rgb(80, 112, 192)>>
        ELSE IF star_chance = 2 THEN <<".", Rgb(80, 80, 80)>>
        ELSE <<" ", 0>>

\* Some(Tile::Asteroid)
RenderAsteroid(r, pos_hash) ==
    LET rotation == (Mod64(Div64(r.frame, 24), 4) + Mod32(Div32(pos_hash, 3), 4)) % 4
        color_variant == Mod32(pos_hash, 4)
        color == CASE color_variant = 0 -> Rgb(144, 112, 80)
                   [] color_variant = 1 -> Rgb(112, 112, 112)
                   [] color_variant = 2 -> Rgb(128, 96, 64)
                   [] OTHER -> Rgb(128, 128, 128)
    IN  <<AsteroidChars[rotation + 1], color>>

(* Some(Tile::Nebula).  The two i32 additions of flow and the u32 addition  *)
(* of ch overflow for some frames and positions: with overflow checks the   *)
(* call panics, without them the sums wrap.                                 *)
RenderNebula(r, pos_hash, x, y, checks) ==
    LET sum1 == AddI32(ToI32(LowU32(Div64(r.frame, 12))), TruncDiv(x, 5))
        sum2 == AddI32(sum1.value, TruncDiv(y, 4))
        flow == TruncRem(sum2.value, 20)
        region == HashPosition(TruncDiv(x, 20), TruncDiv(y, 20), 123)
        base_hue == Mod32(region, 6)
        rgb == CASE base_hue = 0 -> <<128, 64, 128>>
                 [] base_hue = 1 -> <<64, 112, 128>>
                 [] base_hue = 2 -> <<128, 80, 64>>
                 [] base_hue = 3 -> <<80, 64, 128>>
                 [] base_hue = 4 -> <<64, 112, 80>>
                 [] OTHER -> <<80, 80, 112>>
        pulse == Mod32(ToU32(flow), 10) * 3
        dim == 20 + Mod32(pos_hash, 20)
        color == Rgb(Clamp((rgb[1] - dim) + pulse), Clamp((rgb[2] - dim) + pulse),
                     Clamp((rgb[3] - dim) + pulse))
        step == Div32(LowU32(r.frame), 12)
        phase == Mod32(WrappingAdd32(pos_hash, step), 8)
        ch == IF phase = 0 THEN "." ELSE IF phase = 1 THEN ":" ELSE " "
    IN  IF checks /\ (sum1.overflow \/ sum2.overflow \/ AddOverflows32(pos_hash, step))
        THEN Panic
        ELSE <<ch, color>>

\* None: out of bounds
RenderNone(pos_hash) ==
    IF Mod32(pos_hash, 100) = 0 THEN <<".", Rgb(32, 32, 48)>> ELSE <<" ", 0>>

\* render_tile that draws the stars of the floor with effects disabled too
RenderTileFlatStars(r, tile, x, y, checks) ==
    LET pos_hash == HashPosition(x, y, 42)
    IN  IF ~r.effects_enabled /\ tile # Floor THEN RenderSimple(tile)
        ELSE CASE tile = Wall -> RenderWall(pos_hash)
               [] tile = Floor -> RenderFloor(r, pos_hash)
               [] tile = Asteroid -> RenderAsteroid(r, pos_hash)
               [] tile = Nebula -> RenderNebula(r, pos_hash, x, y, checks)
               [] OTHER -> RenderNone(pos_hash)

\* Renderer::render_tile: (glyph, color), or Panic
RenderTile(r, tile, x, y, checks) ==
    LET pos_hash == HashPosition(x, y, 42)
    IN  IF ~r.effects_enabled THEN RenderSimple(tile)
        ELSE CASE tile = Wall -> RenderWall(pos_hash)
               [] tile = Floor -> RenderFloor(r, pos_hash)
               [] tile = Asteroid -> RenderAsteroid(r, pos_hash)
               [] tile = Nebula -> RenderNebula(r, pos_hash, x, y, checks)
               [] OTHER -> RenderNone(pos_hash)

----------------------------------------------------------------------------
(* Renderer::render_tile on its own: a renderer at some frame of the        *)
(* animation clock, ticked and toggled between calls of render_tile for any *)
(* tile at a few positions.  pc is "render" while the run goes on,          *)
(* "panicked" after a call that panicked.                                   *)

\* the ticks of the clock the model follows from a start
MaxTicks == 1

(* The frames the renderer starts from: 0; the frame before the twinkle of  *)
(* a star (every 16 frames), the rotation of an asteroid (every 24) and the *)
(* flow of a nebula (every 12) all advance; the frame before the u32        *)
(* addition of the nebula glyph overflows at (483, 104); and                *)
(* 12 * (2^31 - 1), where (frame / 12) as i32 is i32::MAX.                  *)
RenderStarts ==
    {U64(0), U64(47), U64(5175743), <<65524, 65535, 5, 0>>}

(* The positions drawn.  With the seed 42 of render_tile, (0, 0) hashes to  *)
(* empty space, (-1, -2) to a twinkling star and a dark-shade wall, and     *)
(* (483, 104) has the largest hash of the nebula tiles of the default map.  *)
RenderPoints == {<<0, 0>>, <<-1, -2>>, <<483, 104>>}

\* Option<Tile>
OptionTile == Tile \cup {NoTile}

(* history of the renderer: the first call of render_tile, and whether a    *)
(* later call had the inputs of the first one                               *)
NoCalls == [first |-> <<>>, again |-> FALSE]

\* renderer.tick()
RenderTick ==
    /\ pc = "render"
    /\ now < MaxTicks
    /\ renderer' = Tick(renderer)
    /\ now' = now + 1
    /\ op' = <<"tick">>
    /\ UNCHANGED <<ctx, gens, map, player, input_state, chat, last_move_time, pc, seen>>

\* renderer.toggle_effects()
RenderToggle ==
    /\ pc = "render"
    /\ renderer' = ToggleEffects(renderer)
    /\ op' = <<"toggle_effects">>
    /\ UNCHANGED <<ctx, gens, map, player, input_state, chat, now, last_move_time, pc, seen>>

(* renderer.render_tile(tile, x, y); op keeps the call: the tile, the       *)
(* position, the frame, effects_enabled and what the call gave.  The run    *)
(* ends with a call that panics.                                            *)
RenderCall ==
    /\ pc = "render"
    /\ \E tile \in OptionTile, p \in RenderPoints :
          \E out \in {RenderTile(renderer, tile, p[1], p[2], ctx.checks)} :
             /\ op' = <<"render_tile", tile, p, renderer.frame, renderer.effects_enabled, out>>
             /\ seen' = [first |-> IF seen.first = <<>> THEN op' ELSE seen.first,
                         again |-> \/ seen.again
                                   \/ /\ seen.first # <<>>
                                      /\ SubSeq(op', 2, 5) = SubSeq(seen.first, 2, 5)]
             /\ pc' = IF out = Panic THEN "panicked" ELSE pc
    /\ UNCHANGED <<ctx, gens, map, player, input_state, chat, renderer, now, last_move_time>>

NextRender == RenderTick \/ RenderToggle \/ RenderCall

InitRender ==
    /\ ctx \in {[checks |-> c] : c \in BOOLEAN}
    /\ gens = NoGens
    /\ map = NoMap
    /\ player = NoPlayer
    /\ input_state = NoInput
    /\ chat = NoChat
    /\ \E f \in RenderStarts, e \in BOOLEAN : renderer = [frame |-> f, effects_enabled |-> e]
    /\ now = 0
    /\ last_move_time = 0
    /\ pc = "render"
    /\ op = <<"init", "">>
    /\ seen = NoCalls

SpecRender == InitRender /\ [][NextRender]_vars

----------------------------------------------------------------------------
(* ChatWindow on its own: any sequence of its operations on a window that   *)
(* keeps no message, or one.  seen is the window before the last       *)
(* operation, with the operation before the last; pc is "chat" while the    *)
(* run goes on, "panicked" after an operation that panicked.                *)

\* the bytes of the longest input typed
MaxInput == 4
\* max_messages of the windows edited
ChatKeeps == {0, 1}

\* the characters typed: one of one byte, one of two bytes, one of three
ChatChars == {"a", "U+00E9", "U+20AC"}

\* a step of the run: the window after an operation is r, or the operation panicked
ChatStep(r, call) ==
    /\ pc = "chat"
    /\ chat' = IF r = Panicked THEN chat ELSE r
    /\ pc' = IF r = Panicked THEN "panicked" ELSE pc
    /\ seen' = [before |-> chat, last |-> op]
    /\ op' = call
    /\ UNCHANGED <<ctx, gens, map, player, input_state, renderer, now, last_move_time>>

\* chat.toggle()
ChatDoToggle == ChatStep(ChatToggle(chat), <<"toggle">>)
\* chat.open()
ChatDoOpen == ChatStep(ChatOpen(chat), <<"open">>)
\* chat.close()
ChatDoClose == ChatStep(ChatClose(chat), <<"close">>)
\* chat.insert_char(ch)
ChatDoInsertChar ==
    \E ch \in ChatChars :
        /\ Len(chat.input) + LenUtf8(ch) <= MaxInput
        /\ ChatStep(ChatInsertChar(chat, ch), <<"insert_char", ch>>)
\* chat.backspace()
ChatDoBackspace == ChatStep(ChatBackspace(chat), <<"backspace">>)
\* chat.delete()
ChatDoDelete == ChatStep(ChatDelete(chat), <<"delete">>)
\* chat.cursor_left()
ChatDoCursorLeft == ChatStep(ChatCursorLeft(chat), <<"cursor_left">>)
\* chat.cursor_right()
ChatDoCursorRight == ChatStep(ChatCursorRight(chat), <<"cursor_right">>)
\* chat.cursor_home()
ChatDoCursorHome == ChatStep(ChatCursorHome(chat), <<"cursor_home">>)
\* chat.cursor_end()
ChatDoCursorEnd == ChatStep(ChatCursorEnd(chat), <<"cursor_end">>)
\* chat.submit(); op keeps what it returned
ChatDoSubmit == ChatStep(ChatSubmit(chat).chat, <<"submit", ChatSubmit(chat).text>>)

NextChat ==
    \/ ChatDoToggle \/ ChatDoOpen \/ ChatDoClose \/ ChatDoInsertChar \/ ChatDoBackspace
    \/ ChatDoDelete \/ ChatDoCursorLeft \/ ChatDoCursorRight \/ ChatDoCursorHome
    \/ ChatDoCursorEnd \/ ChatDoSubmit

InitChat ==
    /\ ctx = NoContext
    /\ gens = NoGens
    /\ map = NoMap
    /\ player = NoPlayer
    /\ input_state = NoInput
    /\ \E keep \in ChatKeeps : chat = [ChatWindowDefault EXCEPT !.max_messages = keep]
    /\ renderer = NoRenderer
    /\ now = 0
    /\ last_move_time = 0
    /\ pc = "chat"
    /\ op = <<"init", "">>
    /\ seen = [before |-> chat, last |-> op]

SpecChat == InitChat /\ [][NextChat]_vars

----------------------------------------------------------------------------
(* ChatWindow::add_message on its own: up to MaxAdds messages added to a    *)
(* window that keeps up to MaxKeep of them.  seen is the list of the        *)
(* messages added, in the order of their arrival.                           *)

\* the messages added in a run
MaxAdds == 4
\* the largest max_messages of the windows
MaxKeep == 3

\* the messages that arrive
HistoryMessages == {ChatMessageSystem("1"), ChatMessageSystem("2"), ChatMessageError("1")}

\* chat.add_message(message)
HistoryAddMessage ==
    /\ pc = "history"
    /\ Len(seen) < MaxAdds
    /\ \E message \in HistoryMessages :
          /\ chat' = ChatAddMessage(chat, message)
          /\ seen' = Append(seen, message)
          /\ op' = <<"add_message", message>>
    /\ UNCHANGED <<ctx, gens, map, player, input_state, renderer, now, last_move_time, pc>>

NextHistory == HistoryAddMessage

InitHistory ==
    /\ ctx = NoContext
    /\ gens = NoGens
    /\ map = NoMap
    /\ player = NoPlayer
    /\ input_state = NoInput
    /\ \E keep \in 0..MaxKeep : chat = [ChatWindowDefault EXCEPT !.max_messages = keep]
    /\ renderer = NoRenderer
    /\ now = 0
    /\ last_move_time = 0
    /\ pc = "history"
    /\ op = <<"init", "">>
    /\ seen = <<>>

SpecHistory == InitHistory /\ [][NextHistory]_vars

----------------------------------------------------------------------------
(* The pillar pass of Map::generate_local, candidate by candidate: one     *)
(* step is one turn of "for _ in 0..num_pillars", on the grid and the      *)
(* random stream the passes before it have left.                           *)

\* the grid of the tests and wider ones, ten columns apart
PillarGrids == 7
PillarSizes == {<<TestWidth + (10 * k), TestHeight>> : k \in 0..PillarGrids}

\* generate_local up to the end of its nebula pass
ClientBeforePillars(width, height) ==
    ClientNebulaPass(
        ClientRoomPass(
            ClientVerticalPass(
                ClientHorizontalPass(Step(AllWall(width, height), U64(LocalSeed), "ok"),
                                     width, height, TRUE),
                width, height, TRUE),
            width, height),
        width, height)

\* the cells tiles[py][px] = Tile::Wall is written to for the candidate d
PillarCells(d, width, height) ==
    (d.pillar_x..(Min(d.pillar_x + d.pillar_w, width - 1) - 1))
        \X (d.pillar_y..(Min(d.pillar_y + d.pillar_h, height - 1) - 1))

\* one candidate: drawn, tested, and committed or rejected
PillarCandidate ==
    /\ pc = "pillars"
    /\ seen.left > 0
    /\ LET d == DrawPillar(seen.rng_state, map.width, map.height)
           t == PlacePillar(map.tiles, d, map.width, map.height)
       IN  /\ d.status = "ok"
           /\ map' = [map EXCEPT !.tiles = t]
           /\ seen' = [seen EXCEPT
                          !.rng_state = d.rng_state,
                          !.left = @ - 1,
                          !.committed = IF t # map.tiles
                                        THEN @ \cup PillarCells(d, map.width, map.height)
                                        ELSE @,
                          !.rejected = IF t # map.tiles THEN @ ELSE @ + 1]
           /\ op' = <<"pillar", d, seen.committed>>
    /\ UNCHANGED <<ctx, gens, player, input_state, chat, renderer, now, last_move_time, pc>>

NextPillar == PillarCandidate

InitPillar ==
    /\ ctx = NoContext
    /\ gens = NoGens
    /\ \E sz \in PillarSizes :
          LET g == ClientBeforePillars(sz[1], sz[2])
          IN  /\ g.status = "ok"
              /\ map = LocalMap(g.tiles, sz[1], sz[2])
              /\ seen = [rng_state |-> g.rng_state,
                         left |-> (sz[1] * sz[2]) \div 500,
                         committed |-> {},
                         rejected |-> 0]
    /\ player = NoPlayer
    /\ input_state = NoInput
    /\ chat = NoChat
    /\ renderer = NoRenderer
    /\ now = 0
    /\ last_move_time = 0
    /\ pc = "pillars"
    /\ op = <<"init", "">>

SpecPillar == InitPillar /\ [][NextPillar]_vars

----------------------------------------------------------------------------
(* Properties of the generators, checked under SpecGen.                    *)

\* what a run hands back: the grid, the start and how the run ended
SameRun(a, b) == a.tiles = b.tiles /\ a.start = b.start /\ a.status = b.status

\* the cells of grid t that hold Floor or Nebula
OpenCells(t, width, height) ==
    {c \in (0..(width - 1)) \X (0..(height - 1)) : t[c[2]][c[1]] \in {Floor, Nebula}}

C2_BorderInvariant ==
    \A id \in ClientIds \cup ServerIds :
        gens[id].pc \in {"generated", "done"} =>
            \A y \in 0..(ctx.height - 1), x \in 0..(ctx.width - 1) :
                (x = 0 \/ x = ctx.width - 1 \/ y = 0 \/ y = ctx.height - 1)
                    => gens[id].tiles[y][x] = Wall

\* a client grid and a server grid whose corridors reach the cells next to the border
C2_Witness ==
    /\ gens["map1"].pc = "done"
    /\ gens["generator1"].pc = "done"
    /\ \E y \in 1..(ctx.height - 2) :
          /\ gens["map1"].tiles[y][1] = Floor
          /\ gens["generator1"].tiles[y][ctx.width - 2] = Floor

(* C3 as stated: the resolved start coordinate of a generated grid is       *)
(* always a passable tile.                                                  *)
C3_StartAlwaysPassable ==
    \A id \in ClientIds \cup ServerIds :
        gens[id].pc = "done" =>
            gens[id].start \in OpenCells(gens[id].tiles, ctx.width, ctx.height)

(* C3, amended: whenever the generated grid holds a passable cell, the      *)
(* resolved start is a passable tile strictly inside the border; when it    *)
(* holds none, the start is the fallback (1, 1).                            *)
C3_StartPassableIfAny ==
    \A id \in ClientIds \cup ServerIds :
        gens[id].pc = "done" =>
            LET open == OpenCells(gens[id].tiles, ctx.width, ctx.height)
                start == gens[id].start
            IN  IF open # {}
                THEN /\ start \in open
                     /\ 0 < start[1] /\ start[1] < ctx.width - 1
                     /\ 0 < start[2] /\ start[2] < ctx.height - 1
                ELSE start = <<1, 1>>

\* the centre of the grid is not passable and the search found a start around it
C3_Witness ==
    /\ gens["generator1"].pc = "done"
    /\ gens["generator1"].start # <<ctx.width \div 2, ctx.height \div 2>>
    /\ gens["generator1"].start \in OpenCells(gens["generator1"].tiles, ctx.width, ctx.height)
    /\ gens["map1"].start # <<ctx.width \div 2, ctx.height \div 2>>
    /\ gens["map1"].start \in OpenCells(gens["map1"].tiles, ctx.width, ctx.height)

(* C4: the generator never fails: for every seed, width >= 1 and            *)
(* height >= 1 a run comes to its end and returns a grid of height rows by  *)
(* width columns.                                                           *)
C4_GeneratorNeverFails ==
    \A id \in ClientIds \cup ServerIds :
        Finished(gens[id]) =>
            /\ gens[id].pc = "done"
            /\ DOMAIN gens[id].tiles = 0..(ctx.height - 1)
            /\ \A y \in 0..(ctx.height - 1) : DOMAIN gens[id].tiles[y] = 0..(ctx.width - 1)

(* C5: for seed 12345 and the same width and height, generate_local with   *)
(* find_start_position and MapGenerator::generate give the same tile grid  *)
(* and the same start coordinate.                                           *)
C5_ClientServerAgree ==
    (ctx.seed = U64(DefaultSeed) /\ gens["map1"].pc = "done" /\ gens["generator1"].pc = "done")
        => /\ gens["map1"].tiles = gens["generator1"].tiles
           /\ gens["map1"].start = gens["generator1"].start

----------------------------------------------------------------------------
(* Properties of Player::try_move, checked under SpecMove.                 *)

\* the cell (x, y) lies in the grid of m and holds Floor or Nebula
CellOpen(m, x, y) ==
    /\ x \in 0..(m.width - 1)
    /\ y \in 0..(m.height - 1)
    /\ m.tiles[y][x] \in {Floor, Nebula}

(* C7: for a nonzero delta whose target cell is impassable, and for a       *)
(* diagonal delta whose horizontal-only and vertical-only targets are       *)
(* impassable too, try_move returns "not moved" and leaves x and y as they  *)
(* were, and the facing becomes the direction of the attempted delta.       *)
C7_MovementBlocking ==
    [][op'[1] = "try_move" =>
          LET dx == op'[2]
              dy == op'[3]
          IN  (/\ dx # 0 \/ dy # 0
               /\ ~CellOpen(map, player.x + dx, player.y + dy)
               /\ (dx # 0 /\ dy # 0) =>
                      /\ ~CellOpen(map, player.x + dx, player.y)
                      /\ ~CellOpen(map, player.x, player.y + dy))
              => /\ op'[4] = FALSE
                 /\ player'.x = player.x
                 /\ player'.y = player.y
                 /\ player'.direction = DirectionFromDelta(dx, dy)]_vars

\* the player at (1, 1) tried (-1, 0) against the Wall at (0, 1): not moved, facing Left
C7_Witness ==
    /\ op = <<"try_move", -1, 0, FALSE, 1, 1>>
    /\ map.tiles[1][0] = Wall
    /\ player = [x |-> 1, y |-> 1, direction |-> "Left"]

(* C8: for a diagonal delta whose diagonal target is impassable, try_move   *)
(* takes the horizontal-only sub-move when its target is passable (x        *)
(* advances, y stays, the move is reported successful), and takes the       *)
(* vertical-only sub-move only when the horizontal one is blocked and its   *)
(* own target is passable.                                                  *)
C8_WallSliding ==
    [][op'[1] = "try_move" =>
          LET dx == op'[2]
              dy == op'[3]
          IN  (dx # 0 /\ dy # 0 /\ ~CellOpen(map, player.x + dx, player.y + dy)) =>
                  /\ CellOpen(map, player.x + dx, player.y) =>
                         /\ op'[4] = TRUE
                         /\ player'.x = player.x + dx
                         /\ player'.y = player.y
                  /\ (~CellOpen(map, player.x + dx, player.y)
                        /\ CellOpen(map, player.x, player.y + dy)) =>
                         /\ op'[4] = TRUE
                         /\ player'.x = player.x
                         /\ player'.y = player.y + dy]_vars

\* a diagonal move slid horizontally although the vertical target was passable too
C8_Witness ==
    /\ op[1] = "try_move"
    /\ op[2] # 0 /\ op[3] # 0
    /\ op[4] = TRUE
    /\ ~CellOpen(map, op[5] + op[2], op[6] + op[3])
    /\ CellOpen(map, op[5] + op[2], op[6])
    /\ CellOpen(map, op[5], op[6] + op[3])
    /\ player.x = op[5] + op[2]
    /\ player.y = op[6]

----------------------------------------------------------------------------
(* Properties of the client session, checked under Spec.                   *)

(* C6: in every state of a session after the bootstrap, whether the start   *)
(* came from the server or from the local start resolution, and after any   *)
(* try_move steps and teleports, the cell at (player.x, player.y) is Floor  *)
(* or Nebula.                                                               *)
C6_PlayerOnPassable ==
    pc # "boot" => CellOpen(map, player.x, player.y)

\* on a locally generated map the player stands on the open cell (5, 4), away
\* from the start, and the try_move of the last frame was stopped there
C6_Witness ==
    /\ op = <<"frame", TRUE, FALSE>>
    /\ player.x = 5 /\ player.y = 4
    /\ map.start_position = NoPosition
    /\ CellOpen(map, player.x, player.y)

----------------------------------------------------------------------------
(* Properties of InputState, checked under SpecInput.                      *)

(* C9: while no release event has been seen, a timeout check leaves a held  *)
(* direction key held exactly when its last press or repeat is at most 300  *)
(* ms old: a key with no refresh for longer than the window becomes         *)
(* not-held at that check, a key refreshed within the window stays held.    *)
C9_TimeoutFallback ==
    [][op'[1] = "timeout_stale_keys" =>
          \A k \in DirKeys :
              (input_state.key[k].held /\ ~seen.release) =>
                  (input_state'.key[k].held <=> now - seen.refresh[k] <= KeyTimeout)]_vars

\* a timeout check has released a stale key and kept a key refreshed exactly 300 ms ago
C9_Witness ==
    /\ op[1] = "timeout_stale_keys"
    /\ op[2] # {}
    /\ ~seen.release
    /\ \E k \in DirKeys : input_state.key[k].held /\ now - seen.refresh[k] = KeyTimeout

(* C10: once a release event has been seen, has_release_support is true     *)
(* and stays true, and a timeout check changes nothing, however stale a     *)
(* held key is.                                                             *)
C10_ReleaseSupportPermanent ==
    [][/\ seen'.release => input_state'.has_release_support
       /\ (op'[1] = "timeout_stale_keys" /\ seen.release) => input_state' = input_state]_vars

\* a timeout check ran after a release was seen while a held key was stale
C10_Witness ==
    /\ op[1] = "timeout_stale_keys"
    /\ seen.release
    /\ \E k \in DirKeys : input_state.key[k].held /\ now - seen.refresh[k] > KeyTimeout

(* C11: update_key on a direction key makes that key held, stamped with the *)
(* time of the event, on a press or repeat event, and not held on a release *)
(* event; the held flags of the other three direction keys stay as they     *)
(* were; an event of a key that is no direction key changes nothing in the  *)
(* InputState.                                                              *)
C11_KeyStateMachine ==
    [][\A k \in EventKeys, evtype \in EvTypes :
          op' = <<"update_key", k, evtype>> =>
              IF k \in DirKeys
              THEN /\ evtype \in {"Press", "Repeat"} =>
                        input_state'.key[k] = [held |-> TRUE, last_seen |-> now]
                   /\ evtype = "Release" => ~input_state'.key[k].held
                   /\ \A j \in DirKeys \ {k} :
                         input_state'.key[j].held = input_state.key[j].held
              ELSE input_state' = input_state]_vars

\* Up, pressed at this very time, has been released while Right stays held
C11_Witness ==
    /\ op = <<"update_key", "Up", "Release">>
    /\ now > 0
    /\ seen.refresh["Up"] = now
    /\ ~input_state.key["Up"].held
    /\ input_state.key["Right"].held

----------------------------------------------------------------------------
(* Properties of the main loop, checked under Spec.                        *)

\* the unit delta of a direction key
UnitDelta(k) ==
    CASE k = "Up" -> <<0, -1>>
      [] k = "Down" -> <<0, 1>>
      [] k = "Left" -> <<-1, 0>>
      [] k = "Right" -> <<1, 0>>

RECURSIVE SumDeltas(_)
\* the sum of the unit deltas of a set of direction keys
SumDeltas(keys) ==
    IF keys = {} THEN <<0, 0>>
    ELSE LET k == CHOOSE j \in keys : TRUE
             rest == SumDeltas(keys \ {k})
         IN  <<UnitDelta(k)[1] + rest[1], UnitDelta(k)[2] + rest[2]>>

\* the direction keys held in an InputState
HeldKeys(is) == {k \in DirKeys : is.key[k].held}

(* C12: in every frame the movement vector is the sum of the unit deltas of *)
(* the direction keys held, each component within -1..1, and when the       *)
(* vector is (0, 0) the frame makes no movement attempt: try_move is not    *)
(* called and last_move_time stays as it was.                               *)
C12_MovementVector ==
    [][op'[1] = "frame" =>
          /\ MovementDelta(input_state') = SumDeltas(HeldKeys(input_state'))
          /\ MovementDelta(input_state')[1] \in -1..1
          /\ MovementDelta(input_state')[2] \in -1..1
          /\ MovementDelta(input_state') = <<0, 0>> =>
                 (~op'[2] /\ last_move_time' = last_move_time)]_vars

\* the distance between two integers
Dist(a, b) == IF a >= b THEN a - b ELSE b - a

(* C13: a frame applies at most one movement step, which moves the player   *)
(* by at most one cell on each axis, and a movement step comes at least     *)
(* MoveDelay (33 ms) after the movement step before it, whatever frames and *)
(* input events lie between the two; so do two steps that moved the player. *)
C13_RateLimit ==
    [][op'[1] = "frame" =>
          /\ Dist(player'.x, player.x) <= 1 /\ Dist(player'.y, player.y) <= 1
          /\ ~op'[2] => player' = player
          /\ (op'[2] /\ seen.step >= 0) => now - seen.step >= MoveDelay
          /\ (op'[3] /\ seen.moved >= 0) => now - seen.moved >= MoveDelay]_vars

\* a frame with a direction key held, less than 33 ms after a step that moved
\* the player, has not stepped
C13_Witness ==
    /\ op = <<"frame", FALSE, FALSE>>
    /\ ~chat.active
    /\ AnyMovement(input_state)
    /\ seen.moved >= 0
    /\ now - seen.moved < MoveDelay
    /\ now > seen.moved

(* C14: the bootstrap makes exactly one request to the server.  When the    *)
(* request fails (transport error, non-success status, decode error) the    *)
(* map is the locally generated grid of the fixed size with no start        *)
(* position of its own, and the player starts where start resolution finds  *)
(* a cell, whatever a second request would have brought; when the request   *)
(* succeeds the map is the grid of the payload and the player starts at the *)
(* start of the payload.                                                    *)
C14_BootstrapFallback ==
    [][op'[1] = "bootstrap" =>
          \E payload \in {Generate(ctx.seed, ctx.width, ctx.height, ctx.checks)},
             local \in {GenerateLocal(ctx.width, ctx.height, ctx.checks)} :
              /\ op'[3] = 1
              /\ IF op'[2][1] = "ok"
                 THEN /\ map'.tiles = payload.tiles
                      /\ map'.start_position = payload.start
                      /\ <<player'.x, player'.y>> = payload.start
                 ELSE /\ map'.tiles = local.tiles
                      /\ map'.width = ctx.width /\ map'.height = ctx.height
                      /\ map'.start_position = NoPosition
                      /\ <<player'.x, player'.y>> =
                             ClientRingSearch(map', ctx.width \div 2, ctx.height \div 2, 0,
                                              Max(ctx.width, ctx.height))]_vars

\* the first request failed where a second one would have succeeded, and the
\* session runs on the local map; the payload's grid is another one
C14_Witness ==
    /\ op[1] = "bootstrap"
    /\ op[2] = <<"decode", "ok">>
    /\ map.start_position = NoPosition
    /\ map.tiles # Generate(ctx.seed, ctx.width, ctx.height, ctx.checks).tiles

\* the lines that quit: /quit, /exit and /q
QuitLines ==
    {<<"/", "q", "u", "i", "t">>, <<"/", "e", "x", "i", "t">>, <<"/", "q">>}

MaxU64 == <<Limb - 1, Limb - 1, Limb - 1, Limb - 1>>

(* C16: the frame counter is 0 after the bootstrap; every frame of the loop *)
(* advances it by exactly one, and no other step (input, effects toggle,    *)
(* chat command, sleep) changes it.  The advance wraps: one tick after      *)
(* 2^64 - 1 the counter is 0, and a tick carries from one 16-bit limb of    *)
(* the counter into the next.                                               *)
C16_AnimationClock ==
    [][/\ op'[1] = "bootstrap" => renderer'.frame = U64(0)
       /\ op'[1] = "frame" =>
              /\ \E n \in 0..MaxFrames :
                    renderer.frame = U64(n) /\ renderer'.frame = U64(n + 1)
              /\ Tick([renderer EXCEPT !.frame = MaxU64]).frame = U64(0)
              /\ Tick([renderer EXCEPT !.frame = <<Limb - 1, Limb - 1, 0, 0>>]).frame
                     = <<0, 0, 1, 0>>
              /\ Tick([renderer EXCEPT !.frame = <<Limb - 1, 0, 0, 0>>]).frame
                     = <<0, 1, 0, 0>>
       /\ (pc # "boot" /\ op'[1] # "frame") => renderer'.frame = renderer.frame]_vars

\* the effects have been toggled by 'b' in game mode after two frames
C16_Witness ==
    /\ op = <<"recv">>
    /\ renderer.effects_enabled
    /\ renderer.frame = U64(2)
    /\ ~chat.active
    /\ ctx.chars = {"b", "B", "q", "Q"}

----------------------------------------------------------------------------
(* Properties of the map accessors, checked under SpecMove.                *)

\* the coordinates asked for: the grid and two cells beyond it on every side
ProbeCoords == -2..(MoveDim + 1)

(* C17: for every coordinate, Map::get gives the stored tile when           *)
(* 0 <= x < width and 0 <= y < height and None otherwise, negative          *)
(* coordinates included; Map::is_passable is true exactly for an in-bounds  *)
(* cell that is Floor or Nebula.                                            *)
C17_BoundsCheckedAccess ==
    pc = "move" =>
        \A x \in ProbeCoords, y \in ProbeCoords :
            LET inside == 0 <= x /\ x < map.width /\ 0 <= y /\ y < map.height
            IN  /\ MapGet(map, x, y) = IF inside THEN map.tiles[y][x] ELSE NoTile
                /\ MapGet(map, x, y) \in Tile \cup {NoTile}
                /\ MapIsPassable(map, x, y) <=>
                       (inside /\ map.tiles[y][x] \in {Floor, Nebula})

\* try_move has asked for the cell (-1, 0), left of the grid, and for a cell
\* of each impassable kind
C17_Witness ==
    /\ op = <<"try_move", -1, 1, FALSE, 0, 0>>
    /\ CellOpen(map, 0, 0)
    /\ map.tiles[1][0] = Wall
    /\ map.tiles[0][2] = Asteroid

----------------------------------------------------------------------------
(* More properties of Player::try_move, checked under SpecMove.            *)

(* C18: try_move with the delta (0, 0) returns false and leaves the         *)
(* position and the facing of the player as they were, whatever tiles lie   *)
(* around the player.                                                       *)
C18_ZeroDeltaNoOp ==
    [][(op'[1] = "try_move" /\ op'[2] = 0 /\ op'[3] = 0) =>
          (~op'[4] /\ player' = player)]_vars

\* try_move(0, 0) on a player that stands on a passable cell with a passable
\* cell next to it, and that an earlier move has turned
C18_Witness ==
    /\ op[1] = "try_move" /\ op[2] = 0 /\ op[3] = 0
    /\ player.direction # "Up"
    /\ CellOpen(map, player.x, player.y)
    /\ \E c \in MoveCells :
          /\ CellOpen(map, c[1], c[2])
          /\ Dist(c[1], player.x) + Dist(c[2], player.y) = 1

----------------------------------------------------------------------------
(* More properties of the generators, checked under SpecGen.               *)

(* C20: for the same width and height, the grid of a server generator built *)
(* from one seed differs from the grid of a server generator built from any *)
(* other seed.                                                              *)
C20_DifferentSeedsDiffer ==
    gens["generator1"].pc = "done" =>
        \A sd \in Seeds \ {ctx.seed} :
            \A other \in {Generate(sd, ctx.width, ctx.height, ctx.checks)} :
                other.status = "ok" => other.tiles # gens["generator1"].tiles

----------------------------------------------------------------------------
(* Properties of Renderer::render_tile, checked under SpecRender.           *)

\* the inputs of a call kept in op: the tile, the position, the frame, effects_enabled
CallInputs(call) == <<call[2], call[3], call[4], call[5]>>
\* what the call gave
CallOutput(call) == call[6]

----------------------------------------------------------------------------
(* Properties of the message history, checked under SpecHistory.            *)

\* the last n elements of a sequence, or all of it
LastN(list, n) == SubSeq(list, Max(1, (Len(list) - n) + 1), Len(list))

(* C21: after any sequence of add_message calls the history holds at most   *)
(* max_messages messages, and they are the most recent max_messages of the  *)
(* messages added (all of them when fewer were added), in the order of      *)
(* their arrival.                                                           *)
C21_BoundedFifoHistory ==
    /\ Len(chat.messages) <= chat.max_messages
    /\ chat.messages = LastN(seen, chat.max_messages)

\* a fourth message arrived at a window that keeps three: the first one is gone
C21_Witness ==
    /\ chat.max_messages = 3
    /\ Len(seen) = 4
    /\ seen[1] # seen[2]
    /\ chat.messages = <<seen[2], seen[3], seen[4]>>

----------------------------------------------------------------------------
(* Properties of ChatWindow, checked under SpecChat.                        *)

(* C22: submit on an empty input returns None, leaves the window inactive   *)
(* with an empty input and the cursor at 0, and adds no message; on another *)
(* input it returns that input, leaves the window inactive with an empty    *)
(* input and the cursor at 0, and adds the input to the history as a user   *)
(* message: the history after it is the history before it with that message *)
(* pushed, less its oldest message when it grew beyond max_messages.        *)
C22_Submit ==
    [][(op'[1] = "submit" /\ pc' = "chat") =>
          /\ ~chat'.active /\ chat'.input = <<>> /\ chat'.cursor = 0
          /\ chat'.max_messages = chat.max_messages
          /\ IF chat.input = <<>>
             THEN /\ op'[2] = NoText
                  /\ chat'.messages = chat.messages
             ELSE /\ op'[2] = chat.input
                  /\ chat'.messages =
                        LastN(Append(chat.messages, ChatMessageUser(chat.input)),
                              chat.max_messages)]_vars

\* an active window with a three-byte character in its input has been submitted
C22_Witness ==
    /\ op[1] = "submit"
    /\ Utf8("U+20AC") = op[2]
    /\ seen.before.active /\ seen.before.cursor = 0
    /\ ~chat.active
    /\ chat.messages = <<ChatMessageUser(Utf8("U+20AC"))>>

(* C30: no editing operation panics, and after each of them the cursor is   *)
(* a byte offset from 0 to the length of the input, at the start of a       *)
(* character or at the end.  insert_char puts the bytes of the character at *)
(* the cursor, between the bytes before the cursor and those after it, and  *)
(* moves the cursor past them; backspace with the cursor at 0 and delete    *)
(* with the cursor at the end change nothing; backspace right after         *)
(* insert_char gives back the input and the cursor from before the          *)
(* insert_char.                                                             *)
C30_CursorInBounds ==
    [][/\ pc' # "panicked"
       /\ chat'.cursor \in 0..Len(chat'.input)
       /\ IsCharBoundary(chat'.input, chat'.cursor)
       /\ op'[1] = "insert_char" =>
             /\ chat'.cursor = chat.cursor + LenUtf8(op'[2])
             /\ SubSeq(chat'.input, 1, chat.cursor) = SubSeq(chat.input, 1, chat.cursor)
             /\ SubSeq(chat'.input, chat.cursor + 1, chat'.cursor) = Utf8(op'[2])
             /\ SubSeq(chat'.input, chat'.cursor + 1, Len(chat'.input)) =
                   SubSeq(chat.input, chat.cursor + 1, Len(chat.input))
       /\ (op'[1] = "backspace" /\ chat.cursor = 0) => chat' = chat
       /\ (op'[1] = "delete" /\ chat.cursor = Len(chat.input)) => chat' = chat
       /\ (op'[1] = "backspace" /\ op[1] = "insert_char") =>
             /\ chat'.input = seen.before.input
             /\ chat'.cursor = seen.before.cursor]_vars

(* a three-byte character was inserted in front of another character and    *)
(* taken away again by backspace                                            *)
C30_Witness ==
    /\ op = <<"backspace">>
    /\ seen.last = <<"insert_char", "U+20AC">>
    /\ chat.cursor = 0
    /\ chat.input = <<"a">>
    /\ seen.before.input = Utf8("U+20AC") \o <<"a">>
    /\ seen.before.cursor = 3

----------------------------------------------------------------------------
(* More properties of the main loop, checked under Spec.                    *)

(* C29: after every step of the main loop, a chat window that is inactive   *)
(* has an empty input and its cursor at 0.  The input grows only in a       *)
(* window that is active after the step: by a character typed in chat mode, *)
(* or by '/' in game mode, which leaves the window active with exactly the  *)
(* input "/" and the cursor behind it.                                      *)
C29_InactiveChatIsEmpty ==
    [][/\ ~chat'.active => (chat'.input = <<>> /\ chat'.cursor = 0)
       /\ (pc # "boot" /\ Len(chat'.input) > Len(chat.input)) =>
             /\ chat'.active
             /\ ~chat.active => (chat'.input = <<"/">> /\ chat'.cursor = 1)]_vars

\* Enter has submitted a teleport line: the window is inactive and its draft is gone
C29_Witness ==
    /\ op[1] = "enter"
    /\ op[2] = "Teleport"
    /\ ~chat.active
    /\ chat.input = <<>>
    /\ chat.cursor = 0

(* C28: a frame whose movement step finds the chat window active calls      *)
(* try_move not at all, runs no key timeout and leaves last_move_time, the  *)
(* InputState and the player as they were.  In a step that starts in chat   *)
(* mode the facing of the player never changes, and the position changes    *)
(* only by Enter on a teleport line whose target is passable.               *)
C28_ChatSuspendsMovement ==
    [][(pc # "boot" /\ chat.active) =>
          /\ op'[1] = "frame" =>
                /\ ~op'[2]
                /\ input_state' = input_state
                /\ last_move_time' = last_move_time
                /\ player' = player
          /\ player'.direction = player.direction
          /\ <<player'.x, player'.y>> # <<player.x, player.y>> =>
                /\ op'[1] = "enter"
                /\ op'[2] = "Teleport"
                /\ MapIsPassable(map, player'.x, player'.y)]_vars

(* a frame in chat mode, with a direction key held that a timeout check     *)
(* would release and with the interval of the rate limiter over, has left   *)
(* the key held and made no step                                            *)
C28_Witness ==
    /\ pc = "sleep"
    /\ op = <<"frame", FALSE, FALSE>>
    /\ chat.active
    /\ AnyMovement(input_state)
    /\ MoveDue(now, last_move_time)
    /\ TimeoutStaleKeys(input_state, now) # input_state

(* C27: a direction key that is held, and whose Release event the main loop *)
(* has drained, is not held after it, whether the event arrived in chat     *)
(* mode or in game mode.                                                    *)
C27_ReleasedKeyNotHeld ==
    [][(op'[1] = "recv" /\ Len(op') = 3) => ~input_state'.key[op'[2]].held]_vars
----------------------------------------------------------------------------
(* Properties of the generation passes, checked under SpecGen.             *)

\* the cells of a grid
Cells(width, height) == (0..(width - 1)) \X (0..(height - 1))

\* the run id takes the step that leaves position `from`
Leaves(id, from) == gens[id].pc = from /\ gens'[id].pc # from

(* C23: the nebula pass, of the client and of the server, changes only      *)
(* cells that are Floor, and only to Nebula: no Wall or Asteroid cell is    *)
(* converted, and the set of passable cells is the same before and after    *)
(* the pass.                                                                *)
C23_NebulaOnlyOverFloor ==
    [][\A id \in ClientIds \cup ServerIds :
          Leaves(id, "nebulae") =>
              /\ \A c \in Cells(ctx.width, ctx.height) :
                     gens'[id].tiles[c[2]][c[1]] # gens[id].tiles[c[2]][c[1]]
                         => /\ gens[id].tiles[c[2]][c[1]] = Floor
                            /\ gens'[id].tiles[c[2]][c[1]] = Nebula
              /\ OpenCells(gens'[id].tiles, ctx.width, ctx.height)
                     = OpenCells(gens[id].tiles, ctx.width, ctx.height)]_vars

\* the server's nebula pass has just turned Floor into Nebula next to cells it left
\* as Wall and as Asteroid, on a grid where the client's pass made Nebula cells too
C23_Witness ==
    /\ op = <<"generated", "generator1">>
    /\ \E y \in DOMAIN gens["generator1"].tiles :
          \E x \in 1..(ctx.width - 1) :
              /\ gens["generator1"].tiles[y][x] = Nebula
              /\ gens["generator1"].tiles[y][x - 1] \in {Wall, Asteroid}
    /\ \E c \in Cells(ctx.width, ctx.height) : gens["map1"].tiles[c[2]][c[1]] = Nebula

\* the Chebyshev distance of the cell c from the centre of the grid
FromCenter(c) ==
    Max(Max(c[1] - (ctx.width \div 2), (ctx.width \div 2) - c[1]),
        Max(c[2] - (ctx.height \div 2), (ctx.height \div 2) - c[2]))

\* the cell a comes before the cell b in a scan row by row
RowMajorBefore(a, b) == a[2] < b[2] \/ (a[2] = b[2] /\ a[1] <= b[1])

FloorCells(t, width, height) == {c \in Cells(width, height) : t[c[2]][c[1]] = Floor}

\* the cells that share a side with the cell c
Beside(c) == {<<c[1] - 1, c[2]>>, <<c[1] + 1, c[2]>>, <<c[1], c[2] - 1>>, <<c[1], c[2] + 1>>}

\* the cells of `cells` joined to the cells of `found` by steps from side to side
RECURSIVE Flood(_, _, _)
Flood(found, frontier, cells) ==
    IF frontier = {} THEN found
    ELSE LET next == ((UNION {Beside(c) : c \in frontier}) \cap cells) \ found
         IN  Flood(found \cup next, next, cells)

\* the cells form one region joined from side to side (or there is none)
Connected4(cells) ==
    cells = {} \/ LET c == CHOOSE c \in cells : TRUE IN Flood({c}, {c}, cells) = cells

(* C26: right after the horizontal and the vertical corridor pass, of the   *)
(* client (vertical corridors) and of the server (vertical passages), all   *)
(* Floor cells of the grid form a single 4-connected region, for every grid *)
(* size and every seed.                                                     *)
C26_CorridorsConnected ==
    \A id \in ClientIds \cup ServerIds :
        gens[id].pc = "rooms" => Connected4(FloorCells(gens[id].tiles, ctx.width, ctx.height))

----------------------------------------------------------------------------
(* Properties of the pillar pass, checked under SpecPillar.                *)

\* the cells of the grid within one step of the cell c, c among them
Around(c, width, height) ==
    (Max(c[1] - 1, 0)..Min(c[1] + 1, width - 1))
        \X (Max(c[2] - 1, 0)..Min(c[2] + 1, height - 1))

\* the candidate's box grown by one cell on every side, clipped to the grid
GrownBox(d, width, height) ==
    (Max(d.pillar_x - 1, 0)..Min(d.pillar_x + d.pillar_w, width - 1))
        \X (Max(d.pillar_y - 1, 0)..Min(d.pillar_y + d.pillar_h, height - 1))

\* the cells on the outer border of the grid
Border(width, height) ==
    {n \in Cells(width, height) :
        n[1] = 0 \/ n[1] = width - 1 \/ n[2] = 0 \/ n[2] = height - 1}

(* C24: a pillar candidate is committed only if no cell of its box grown by *)
(* one cell on every side, clipped to the grid, is Wall at that moment; a   *)
(* committed pillar writes Wall to its own box and to nothing else, none of *)
(* its cells is 8-adjacent to the outer border, to a Wall that was there    *)
(* before the candidate, or to a cell of a pillar committed before it; a    *)
(* rejected candidate changes no cell.                                      *)
C24_PillarRejection ==
    [][op'[1] = "pillar" =>
          LET d == op'[2]
              before == op'[3]
              box == GrownBox(d, map.width, map.height)
              blocked == \E n \in box : map.tiles[n[2]][n[1]] = Wall
              changed == {c \in Cells(map.width, map.height) :
                             map'.tiles[c[2]][c[1]] # map.tiles[c[2]][c[1]]}
          IN  /\ blocked => changed = {}
              /\ changed # {} => ~blocked
              /\ ~blocked => changed = PillarCells(d, map.width, map.height)
              /\ \A c \in changed :
                     /\ map'.tiles[c[2]][c[1]] = Wall
                     /\ Around(c, map.width, map.height) \subseteq box
                     /\ \A n \in Around(c, map.width, map.height) :
                            /\ n \notin Border(map.width, map.height)
                            /\ map.tiles[n[2]][n[1]] # Wall
                            /\ n \notin before]_vars

\* a pillar is committed after another pillar was committed and a candidate rejected
C24_Witness ==
    /\ op[1] = "pillar"
    /\ seen.committed # op[3]
    /\ op[3] # {}
    /\ seen.rejected > 0

====
